---- MODULE Spec2Model ----
(***************************************************************************)
(* Quality-gate hooks of claude-command-center (.claude-template/hooks):    *)
(* quality_gates.py, the 13 gate validators, the validator registry with   *)
(* its auto-pass fallback and the confidence-action resolver, over         *)
(* binary64 floating-point scores, and its command-line entrypoint;        *)
(* protocol_event.py, the six event builders and its entrypoint; and the   *)
(* transport of an event to the observability server.                      *)
(***************************************************************************)
EXTENDS Integers, Sequences, FiniteSets, TLC

(***************************************************************************)
(* Bounds of the explored inputs.                                          *)
(***************************************************************************)
MaxWords == 101       \* filler words appended to a query
MaxCount == 10        \* sources_examined
MaxTests == 10        \* tests_run, tests_passed, tests_failed
MaxList == 3          \* length of findings, acceptance_criteria, options, ...
MaxFailures == 4      \* length of new_failures
MaxMatches == 2       \* length of matches
MaxTwentieths == 24   \* numeric fields range over -24/20 .. 24/20
MaxPercent == 120     \* resolver inputs range over -1.20 .. 1.20
MaxCalls == 2         \* calls of validate_gate by one agent
MaxClock == 1         \* ticks of the clock

(***************************************************************************)
(* Python floats are IEEE-754 binary64.  A finite double x with |x| < 16   *)
(* that is a multiple of 2^-60 is held exactly as the integer x * 2^60,    *)
(* split into three limbs <<a, b, c>> = a*2^40 + b*2^20 + c with           *)
(* 0 <= b, c < 2^20 and a signed (floor representation).  Every literal    *)
(* and every score of the gates is such a double.                          *)
(***************************************************************************)
LimbBase == 2^20

FNorm(a, b, c) ==
    LET b1 == b + (c \div LimbBase)
    IN  <<a + (b1 \div LimbBase), b1 % LimbBase, c % LimbBase>>

FZero == <<0, 0, 0>>

FNeg(x) == FNorm(0 - x[1], 0 - x[2], 0 - x[3])

FLt(x, y) ==
    \/ x[1] < y[1]
    \/ x[1] = y[1] /\ x[2] < y[2]
    \/ x[1] = y[1] /\ x[2] = y[2] /\ x[3] < y[3]

FGe(x, y) == ~FLt(x, y)

FGt(x, y) == FLt(y, x)

FLe(x, y) == ~FLt(y, x)

RECURSIVE BitLen(_)
BitLen(n) == IF n = 0 THEN 0 ELSE 1 + BitLen(n \div 2)

\* round-to-nearest, ties-to-even, of a non-negative exact value to 53
\* significant bits; guard and sticky describe the part of the exact value
\* below the 2^-60 grid (both FALSE for a sum of two doubles on the grid)
FRoundMag(x, guard, sticky) ==
    LET k == BitLen(x[1]) - 13
    IN  IF k <= 0
        THEN IF guard /\ (sticky \/ x[3] % 2 = 1)
             THEN FNorm(x[1], x[2], x[3] + 1)
             ELSE x
        ELSE LET p    == 2^k
                 r    == x[3] % p
                 q    == x[3] \div p
                 half == p \div 2
                 up   == \/ r > half
                         \/ r = half /\ (guard \/ sticky \/ q % 2 = 1)
             IN  FNorm(x[1], x[2], (q + (IF up THEN 1 ELSE 0)) * p)

FRound(x) ==
    IF x[1] < 0 THEN FNeg(FRoundMag(FNeg(x), FALSE, FALSE))
                ELSE FRoundMag(x, FALSE, FALSE)

\* x + y of two doubles
FAdd(x, y) == FRound(FNorm(x[1] + y[1], x[2] + y[2], x[3] + y[3]))

\* n quotient bits of r/q after the binary point, for 0 <= r < q < 2^11 and
\* n <= 20: <<floor(r*2^n/q), remainder>>
DivBits(r, q, n) == <<(r * 2^n) \div q, (r * 2^n) % q>>

\* k limbs of 20 quotient bits of r/q, then the guard bit and the remainder
RECURSIVE DivLimbs(_, _, _)
DivLimbs(r, q, k) ==
    IF k = 0 THEN DivBits(r, q, 1)
    ELSE LET limb == DivBits(r, q, 20)
         IN  <<limb[1]>> \o DivLimbs(limb[2], q, k - 1)

\* the integer part ip and the quotient digits d of a division, rounded
FDivRound(ip, d) ==
    FRoundMag(<<ip * 2^20 + d[1], d[2], d[3]>>, d[4] = 1, d[5] # 0)

\* correctly rounded p / q for integers p >= 0, q > 0 (p = 0 or p/q >= 2^-8)
FDivMag(p, q) == FDivRound(p \div q, DivLimbs(p % q, q, 3))

\* Python's int / int (true division), q > 0; also the value of a decimal
\* literal such as 0.15 = FDiv(15, 100), the double nearest to the decimal
FDiv(p, q) == IF p < 0 THEN FNeg(FDivMag(0 - p, q)) ELSE FDivMag(p, q)

\* the double equal to the integer n
FInt(n) == <<n * 2^20, 0, 0>>

\* the seven base-2^10 digits of a non-negative value
FDigits(x) ==
    <<x[3] % 1024, x[3] \div 1024, x[2] % 1024, x[2] \div 1024,
      x[1] % 1024, (x[1] \div 1024) % 1024, x[1] \div 2^20>>

\* carry-normalise the columns of a product into base-2^10 digits
RECURSIVE CarryDigits(_, _, _)
CarryDigits(cols, i, carry) ==
    IF i > Len(cols) THEN <<carry>>
    ELSE <<(cols[i] + carry) % 1024>>
         \o CarryDigits(cols, i + 1, (cols[i] + carry) \div 1024)

RECURSIVE ColumnSum(_, _, _, _)
ColumnSum(dx, dy, k, i) ==
    IF i > 7 THEN 0
    ELSE (IF k - i + 1 \in 1..7 THEN dx[i] * dy[k - i + 1] ELSE 0)
         + ColumnSum(dx, dy, k, i + 1)

\* x * y of two non-negative doubles (x*y = 0 or x*y >= 2^-8): the exact
\* product in units of 2^-120, rounded once
FMul(x, y) ==
    LET dx   == FDigits(x)
        dy   == FDigits(y)
        cols == [k \in 1..13 |-> ColumnSum(dx, dy, k, 1)]
        d    == CarryDigits(cols, 1, 0)
        low  == \E i \in 1..5 : d[i] # 0
    IN  FRoundMag(
            <<d[11] + d[12] * 1024 + d[13] * 2^20,
              d[9] + d[10] * 1024,
              d[7] + d[8] * 1024>>,
            d[6] \div 512 = 1,
            low \/ d[6] % 512 # 0)

\* Python's max(0.0, x) and min(1.0, x)
FMax0(x) == IF FGt(x, FZero) THEN x ELSE FZero

FMin1(x) == IF FLt(x, FInt(1)) THEN x ELSE FInt(1)

\* the hundredths nearest to the exact binary value, ties to even
FmtMag(x) ==
    LET m    == FNorm(x[1] * 100, x[2] * 100, x[3] * 100)
        h    == m[1] \div 2^20
        rem  == <<m[1] % 2^20, m[2], m[3]>>
        half == <<2^19, 0, 0>>
        up   == FGt(rem, half) \/ (rem = half /\ h % 2 = 1)
    IN  IF up THEN h + 1 ELSE h

\* format(x, ".2f")
Fmt2(x) ==
    LET neg == x[1] < 0
        h   == FmtMag(IF neg THEN FNeg(x) ELSE x)
    IN  (IF neg THEN "-" ELSE "") \o ToString(h \div 100) \o "."
        \o ToString((h % 100) \div 10) \o ToString(h % 10)

(***************************************************************************)
(* Python values.  A list is a sequence, a dict a function on its keys,     *)
(* None the value PyNone.  A str is a string, except the query of          *)
(* input_clarity, whose characters are inspected: it is a sequence of      *)
(* one-character strings.                                                  *)
(***************************************************************************)
PyNone == <<"None">>

\* dict.get(key, default)
Get(d, key, default) == IF key \in DOMAIN d THEN d[key] ELSE default

\* truth value of a list of strs or a sequence of characters (or None)
Truthy(v) == v # <<>> /\ v # PyNone

\* truth value of a str
TruthyStr(v) == v # ""

UpperChars == <<"A", "B", "C", "D", "E", "F", "G", "H", "I", "J", "K", "L", "M",
                "N", "O", "P", "Q", "R", "S", "T", "U", "V", "W", "X", "Y", "Z">>

LowerChars == <<"a", "b", "c", "d", "e", "f", "g", "h", "i", "j", "k", "l", "m",
                "n", "o", "p", "q", "r", "s", "t", "u", "v", "w", "x", "y", "z">>

\* str.lower()
Lower(s) ==
    [i \in 1..Len(s) |->
        IF \E j \in 1..26 : UpperChars[j] = s[i]
        THEN LowerChars[CHOOSE j \in 1..26 : UpperChars[j] = s[i]]
        ELSE s[i]]

\* len(s.split()): the maximal runs of non-blank characters
WordCount(s) ==
    Cardinality({i \in 1..Len(s) : s[i] # " " /\ (i = 1 \/ s[i - 1] = " ")})

\* t in s, for strs
Contains(s, t) ==
    \E i \in 0..(Len(s) - Len(t)) : \A j \in 1..Len(t) : s[i + j] = t[j]

\* any(t in s for t in tokens)
ContainsAny(s, tokens) == \E k \in 1..Len(tokens) : Contains(s, tokens[k])

\* a decimal literal with two places, 0.nn or 1.0
Dec(n) == FDiv(n, 100)

QUALITY_GATE_THRESHOLD == Dec(80)

QualityGateResult(gate_name, passed, score, threshold, feedback, suggestions, blocking) ==
    [gate_name |-> gate_name, passed |-> passed, score |-> score,
     threshold |-> threshold, feedback |-> feedback,
     suggestions |-> suggestions, blocking |-> blocking]

GateContext(session_id, agent_type, phase, data, history) ==
    [session_id |-> session_id, agent_type |-> agent_type, phase |-> phase,
     data |-> data, history |-> history]

\* score = min(1.0, max(0.0, score))
Clamp(score) == FMin1(FMax0(score))

(***************************************************************************)
(* Researcher gates.                                                       *)
(***************************************************************************)
QuestionMarkers ==
    <<<<"h", "o", "w">>,
      <<"w", "h", "a", "t">>,
      <<"w", "h", "y">>,
      <<"w", "h", "i", "c", "h">>,
      <<"w", "h", "e", "n">>,
      <<"w", "h", "e", "r", "e">>,
      <<"c", "a", "n">>>>

tech_indicators ==
    <<<<"i", "m", "p", "l", "e", "m", "e", "n", "t">>,
      <<"a", "r", "c", "h", "i", "t", "e", "c", "t", "u", "r", "e">>,
      <<"p", "a", "t", "t", "e", "r", "n">>,
      <<"p", "e", "r", "f", "o", "r", "m", "a", "n", "c", "e">>,
      <<"s", "e", "c", "u", "r", "i", "t", "y">>,
      <<"t", "e", "s", "t">>,
      <<"a", "p", "i">>,
      <<"c", "o", "m", "p", "o", "n", "e", "n", "t">>,
      <<"d", "a", "t", "a", "b", "a", "s", "e">>>>

\* if cond: score += weight
AddIf(score, cond, weight) == IF cond THEN FAdd(score, weight) ELSE score

\* if cond: score = min(1.0, score + weight)
BoostIf(score, cond, weight) ==
    IF cond THEN FMin1(FAdd(score, weight)) ELSE score

\* the else branch "suggestions.append(text)" of a test cond
Unless(suggestions, cond, text) ==
    IF cond THEN suggestions ELSE Append(suggestions, text)

\* mutant: the first word-count bound taken strictly
validate_input_clarity_strict(ctx) ==
    LET data  == ctx.data
        query == Get(data, "query", <<>>)
        word_count == WordCount(query)
        hasQ == ContainsAny(Lower(query), QuestionMarkers)
        hasT == ContainsAny(Lower(query), tech_indicators)
        return(score, passed, suggestions) ==
            QualityGateResult("input_clarity", passed, score,
                QUALITY_GATE_THRESHOLD,
                "Query clarity score: " \o Fmt2(score) \o
                  (IF passed THEN " - Passed" ELSE " - Needs clarification"),
                IF ~passed THEN suggestions ELSE <<>>,
                ~passed /\ FLt(score, Dec(60)))
        judge(score, suggestions) ==
            return(score, FGe(score, QUALITY_GATE_THRESHOLD), suggestions)
    IN  IF ~Truthy(query)
        THEN QualityGateResult("input_clarity", FALSE, FZero,
                 QUALITY_GATE_THRESHOLD, "No query provided",
                 <<"Provide a research question or topic">>, TRUE)
        ELSE judge(
                 Clamp(AddIf(AddIf(AddIf(AddIf(AddIf(FZero,
                     word_count > 5, Dec(30)),
                     word_count >= 10, Dec(20)),
                     word_count <= 100, Dec(10)),
                     hasQ, Dec(20)),
                     hasT, Dec(20))),
                 Unless(Unless(<<>>,
                     hasQ, "Consider framing as a question for clearer scope"),
                     hasT, "Include specific technical terms to narrow scope"))

validate_input_clarity(ctx) ==
    LET data  == ctx.data
        query == Get(data, "query", <<>>)
        word_count == WordCount(query)
        hasQ == ContainsAny(Lower(query), QuestionMarkers)
        hasT == ContainsAny(Lower(query), tech_indicators)
        return(score, passed, suggestions) ==
            QualityGateResult("input_clarity", passed, score,
                QUALITY_GATE_THRESHOLD,
                "Query clarity score: " \o Fmt2(score) \o
                  (IF passed THEN " - Passed" ELSE " - Needs clarification"),
                IF ~passed THEN suggestions ELSE <<>>,
                ~passed /\ FLt(score, Dec(60)))
        judge(score, suggestions) ==
            return(score, FGe(score, QUALITY_GATE_THRESHOLD), suggestions)
    IN  IF ~Truthy(query)
        THEN QualityGateResult("input_clarity", FALSE, FZero,
                 QUALITY_GATE_THRESHOLD, "No query provided",
                 <<"Provide a research question or topic">>, TRUE)
        ELSE judge(
                 Clamp(AddIf(AddIf(AddIf(AddIf(AddIf(FZero,
                     word_count >= 5, Dec(30)),
                     word_count >= 10, Dec(20)),
                     word_count <= 100, Dec(10)),
                     hasQ, Dec(20)),
                     hasT, Dec(20))),
                 Unless(Unless(<<>>,
                     hasQ, "Consider framing as a question for clearer scope"),
                     hasT, "Include specific technical terms to narrow scope"))

validate_source_coverage(ctx) ==
    LET data == ctx.data
        sources_examined == Get(data, "sources_examined", 0)
        files_read       == Get(data, "files_read", 0)
        web_sources      == Get(data, "web_sources", 0)
        patterns_found   == Get(data, "patterns_found", 0)
        return(score, passed, suggestions) ==
            QualityGateResult("source_coverage", passed, score, Dec(70),
                "Source coverage: " \o ToString(sources_examined)
                  \o " sources, " \o ToString(files_read) \o " files, "
                  \o ToString(web_sources) \o " web" \o
                  (IF passed THEN " - Adequate" ELSE " - Needs more research"),
                IF ~passed THEN suggestions ELSE <<>>,
                FALSE)
        judge(score, suggestions) ==
            return(score, FGe(score, Dec(70)), suggestions)
    IN  judge(
            Clamp(AddIf(AddIf(AddIf(AddIf(AddIf(AddIf(FZero,
                sources_examined >= 3, Dec(30)),
                sources_examined >= 5, Dec(20)),
                sources_examined >= 10, Dec(10)),
                files_read > 0, Dec(15)),
                web_sources > 0, Dec(10)),
                patterns_found >= 2, Dec(15))),
            Unless(<<>>,
                files_read > 0, "Search codebase for relevant patterns"))

validate_synthesis_quality(ctx) ==
    LET data == ctx.data
        findings        == Get(data, "findings", <<>>)
        recommendations == Get(data, "recommendations", <<>>)
        trade_offs      == Get(data, "trade_offs", <<>>)
        has_confidence  == Get(data, "confidence", PyNone) # PyNone
        return(score, passed, suggestions) ==
            QualityGateResult("synthesis_quality", passed, score,
                QUALITY_GATE_THRESHOLD,
                "Synthesis quality: " \o ToString(Len(findings))
                  \o " findings, " \o ToString(Len(recommendations))
                  \o " recommendations" \o
                  (IF passed THEN " - Ready for handoff"
                             ELSE " - Needs refinement"),
                IF ~passed THEN suggestions ELSE <<>>,
                ~passed /\ FLt(score, Dec(60)))
        judge(score, suggestions) ==
            return(score, FGe(score, QUALITY_GATE_THRESHOLD), suggestions)
    IN  judge(
            Clamp(AddIf(AddIf(AddIf(AddIf(AddIf(FZero,
                Len(findings) >= 1, Dec(20)),
                Len(findings) >= 3, Dec(15)),
                Len(recommendations) >= 1, Dec(25)),
                Len(trade_offs) >= 1, Dec(20)),
                has_confidence, Dec(20))),
            Unless(Unless(Unless(Unless(<<>>,
                Len(findings) >= 3, "Document at least 3 key findings"),
                Len(recommendations) >= 1, "Provide actionable recommendations"),
                Len(trade_offs) >= 1, "Analyze trade-offs between approaches"),
                has_confidence, "Assign confidence level to recommendations"))

(***************************************************************************)
(* Implementer gates.                                                      *)
(***************************************************************************)
validate_requirements_clarity(ctx) ==
    LET data == ctx.data
        task                == Get(data, "task", "")
        acceptance_criteria == Get(data, "acceptance_criteria", <<>>)
        scope               == Get(data, "scope", <<>>)
        hasTask  == TruthyStr(task) /\ Len(task) > 10
        hasScope == \/ Truthy(Get(scope, "files", PyNone))
                    \/ Truthy(Get(scope, "modules", PyNone))
        return(score, passed, suggestions) ==
            QualityGateResult("requirements_clarity", passed, score,
                QUALITY_GATE_THRESHOLD,
                "Requirements clarity: " \o ToString(Len(acceptance_criteria))
                  \o " criteria defined" \o
                  (IF passed THEN " - Ready to implement"
                             ELSE " - Needs clarification"),
                IF ~passed THEN suggestions ELSE <<>>,
                ~passed /\ FLt(score, Dec(60)))
        judge(score, suggestions) ==
            return(score, FGe(score, QUALITY_GATE_THRESHOLD), suggestions)
    IN  judge(
            Clamp(AddIf(AddIf(AddIf(AddIf(AddIf(FZero,
                hasTask, Dec(30)),
                Len(acceptance_criteria) >= 1, Dec(20)),
                Len(acceptance_criteria) >= 3, Dec(15)),
                hasScope, Dec(20)),
                Truthy(Get(data, "edge_cases", PyNone)), Dec(15))),
            Unless(Unless(Unless(<<>>,
                hasTask, "Provide clear task description"),
                Len(acceptance_criteria) >= 3,
                    "Define explicit acceptance criteria"),
                hasScope, "Identify files/modules in scope"))

validate_code_quality(ctx) ==
    LET data   == ctx.data
        checks == Get(data, "quality_checks", <<>>)
        c1 == Get(checks, "typescript_types", FALSE)
        c2 == Get(checks, "error_handling", FALSE)
        c3 == Get(checks, "no_debug_code", TRUE)
        c4 == Get(checks, "follows_patterns", FALSE)
        c5 == Get(checks, "comments_explain_why", FALSE)
        return(score, passed, suggestions) ==
            QualityGateResult("code_quality", passed, score,
                QUALITY_GATE_THRESHOLD,
                "Code quality score: " \o Fmt2(score) \o
                  (IF passed THEN " - Quality standards met"
                             ELSE " - Needs improvement"),
                IF ~passed THEN suggestions ELSE <<>>,
                ~passed /\ FLt(score, Dec(60)))
        judge(score, suggestions) ==
            return(score, FGe(score, QUALITY_GATE_THRESHOLD), suggestions)
    IN  judge(
            Clamp(AddIf(AddIf(AddIf(AddIf(AddIf(FZero,
                c1, Dec(25)),
                c2, Dec(25)),
                c3, Dec(15)),
                c4, Dec(20)),
                c5, Dec(15))),
            Unless(Unless(Unless(Unless(<<>>,
                c1, "Add comprehensive TypeScript types"),
                c2, "Add error handling for edge cases"),
                c3, "Remove console.log and debug statements"),
                c4, "Ensure code follows existing project patterns"))

validate_test_coverage(ctx) ==
    LET data == ctx.data
        tests_added == Get(data, "tests_added", 0)
        coverage    == Get(data, "coverage_percent", 0)
        test_types  == Get(data, "test_types", <<>>)
        \* if coverage >= 80 ... elif coverage >= 60 ... else ...
        cover(score) ==
            IF coverage >= 80 THEN FAdd(score, Dec(25))
            ELSE IF coverage >= 60 THEN FAdd(score, Dec(15))
            ELSE score
        uncovered(suggestions) ==
            IF coverage >= 80 THEN suggestions
            ELSE IF coverage >= 60
                 THEN Append(suggestions, "Increase coverage to 80%+")
            ELSE Append(suggestions, "Test coverage (" \o ToString(coverage)
                                       \o "%) below 60% threshold")
        return(score, passed, suggestions) ==
            QualityGateResult("test_coverage", passed, score,
                QUALITY_GATE_THRESHOLD,
                "Test coverage: " \o ToString(tests_added) \o " tests, "
                  \o ToString(coverage) \o "% coverage" \o
                  (IF passed THEN " - Well tested" ELSE " - Needs more tests"),
                IF ~passed THEN suggestions ELSE <<>>,
                FALSE)
        judge(score, suggestions) ==
            return(score, FGe(score, QUALITY_GATE_THRESHOLD), suggestions)
    IN  judge(
            Clamp(AddIf(AddIf(AddIf(cover(AddIf(AddIf(FZero,
                tests_added >= 1, Dec(25)),
                tests_added >= 3, Dec(15))),
                Get(test_types, "happy_path", FALSE), Dec(15)),
                Get(test_types, "edge_cases", FALSE), Dec(10)),
                Get(test_types, "error_handling", FALSE), Dec(10))),
            Unless(uncovered(Unless(<<>>,
                tests_added >= 3, "Add at least 3 tests for new functionality")),
                Get(test_types, "happy_path", FALSE), "Add happy path tests"))

\* [prefix + f for f in xs]
RECURSIVE PrefixEach(_, _)
PrefixEach(prefix, xs) ==
    IF xs = <<>> THEN <<>>
    ELSE <<prefix \o Head(xs)>> \o PrefixEach(prefix, Tail(xs))

\* mutant: no truncation
Take_all(xs, n) == xs

\* xs[:n]
Take(xs, n) == SubSeq(xs, 1, IF Len(xs) < n THEN Len(xs) ELSE n)

validate_no_regressions(ctx) ==
    LET data == ctx.data
        tests_run    == Get(data, "tests_run", 0)
        tests_passed == Get(data, "tests_passed", 0)
        tests_failed == Get(data, "tests_failed", 0)
        new_failures == Get(data, "new_failures", <<>>)
        pass_rate    == IF tests_run > 0 THEN FDiv(tests_passed, tests_run)
                        ELSE FZero
    IN  IF tests_run = 0
        THEN QualityGateResult("no_regressions", FALSE, FZero, FInt(1),
                 "No tests run - cannot verify regressions",
                 <<"Run test suite before completion">>, TRUE)
        ELSE IF tests_failed > 0
        THEN QualityGateResult("no_regressions", FALSE, pass_rate, FInt(1),
                 "Regression detected: " \o ToString(tests_failed)
                   \o " test(s) failed",
                 PrefixEach("Fix failing test: ", Take(new_failures, 3)),
                 TRUE)
        ELSE QualityGateResult("no_regressions", TRUE, FInt(1), FInt(1),
                 "All " \o ToString(tests_run) \o " tests pass - no regressions",
                 <<>>, FALSE)

(***************************************************************************)
(* Reviewer gates.                                                         *)
(***************************************************************************)
\* the loop "for item, weight in items: if checks.get(item, False): score +=
\* weight else: suggestions.append(...)", from entry i on, over entries
\* <<key, weight, suggestion>>; yields <<score, suggestions>>
RECURSIVE WeighItems(_, _, _, _, _)
WeighItems(items, checks, i, score, suggestions) ==
    IF i > Len(items) THEN <<score, suggestions>>
    ELSE WeighItems(items, checks, i + 1,
             AddIf(score, Get(checks, items[i][1], FALSE), items[i][2]),
             Unless(suggestions, Get(checks, items[i][1], FALSE), items[i][3]))

dimension_weights ==
    << <<"correctness", Dec(25), "Review correctness dimension">>,
       <<"security", Dec(25), "Review security dimension">>,
       <<"performance", Dec(20), "Review performance dimension">>,
       <<"maintainability", Dec(15), "Review maintainability dimension">>,
       <<"test_coverage", Dec(15), "Review test_coverage dimension">> >>

\* mutant: the suggestions are kept when the verdict passes
validate_review_completeness_keeps(ctx) ==
    LET data       == ctx.data
        dimensions == Get(data, "dimensions_reviewed", <<>>)
        reviewed_count == Cardinality({d \in DOMAIN dimensions : dimensions[d]})
        total_count    == Len(dimension_weights)
        return(score, passed, suggestions) ==
            QualityGateResult("review_completeness", passed, score,
                QUALITY_GATE_THRESHOLD,
                "Review completeness: " \o ToString(reviewed_count) \o "/"
                  \o ToString(total_count) \o " dimensions" \o
                  (IF passed THEN " - Comprehensive review"
                             ELSE " - Incomplete review"),
                suggestions,
                FALSE)
        judge(score, suggestions) ==
            return(score, FGe(score, QUALITY_GATE_THRESHOLD), suggestions)
        after(loop) == judge(Clamp(loop[1]), loop[2])
    IN  after(WeighItems(dimension_weights, dimensions, 1, FZero, <<>>))

validate_review_completeness(ctx) ==
    LET data       == ctx.data
        dimensions == Get(data, "dimensions_reviewed", <<>>)
        reviewed_count == Cardinality({d \in DOMAIN dimensions : dimensions[d]})
        total_count    == Len(dimension_weights)
        return(score, passed, suggestions) ==
            QualityGateResult("review_completeness", passed, score,
                QUALITY_GATE_THRESHOLD,
                "Review completeness: " \o ToString(reviewed_count) \o "/"
                  \o ToString(total_count) \o " dimensions" \o
                  (IF passed THEN " - Comprehensive review"
                             ELSE " - Incomplete review"),
                IF ~passed THEN suggestions ELSE <<>>,
                FALSE)
        judge(score, suggestions) ==
            return(score, FGe(score, QUALITY_GATE_THRESHOLD), suggestions)
        after(loop) == judge(Clamp(loop[1]), loop[2])
    IN  after(WeighItems(dimension_weights, dimensions, 1, FZero, <<>>))

security_items ==
    << <<"input_validation", Dec(25), "Verify input validation">>,
       <<"output_encoding", Dec(20), "Verify output encoding">>,
       <<"auth_checks", Dec(25), "Verify auth checks">>,
       <<"no_data_exposure", Dec(15), "Verify no data exposure">>,
       <<"injection_prevention", Dec(15), "Verify injection prevention">> >>

\* mutant: the default threshold instead of the raised one
security_threshold_default == QUALITY_GATE_THRESHOLD

security_threshold == Dec(90)

\* mutant: blocking set unconditionally
validate_security_check_blocks(ctx) ==
    LET data   == ctx.data
        checks == Get(data, "security_checks", <<>>)
        return(score, passed, suggestions) ==
            QualityGateResult("security_check", passed, score,
                security_threshold,
                "Security score: " \o Fmt2(score) \o
                  (IF passed THEN " - Security standards met"
                             ELSE " - Security concerns found"),
                IF ~passed THEN suggestions ELSE <<>>,
                TRUE)
        judge(score, suggestions) ==
            return(score, FGe(score, security_threshold), suggestions)
        after(loop) == judge(Clamp(loop[1]), loop[2])
    IN  after(WeighItems(security_items, checks, 1, FZero, <<>>))

validate_security_check(ctx) ==
    LET data   == ctx.data
        checks == Get(data, "security_checks", <<>>)
        return(score, passed, suggestions) ==
            QualityGateResult("security_check", passed, score,
                security_threshold,
                "Security score: " \o Fmt2(score) \o
                  (IF passed THEN " - Security standards met"
                             ELSE " - Security concerns found"),
                IF ~passed THEN suggestions ELSE <<>>,
                ~passed)
        judge(score, suggestions) ==
            return(score, FGe(score, security_threshold), suggestions)
        after(loop) == judge(Clamp(loop[1]), loop[2])
    IN  after(WeighItems(security_items, checks, 1, FZero, <<>>))

(***************************************************************************)
(* Consensus gates.                                                        *)
(***************************************************************************)
validate_decision_clarity(ctx) ==
    LET data == ctx.data
        question         == Get(data, "question", "")
        options          == Get(data, "options", <<>>)
        constraints      == Get(data, "constraints", <<>>)
        success_criteria == Get(data, "success_criteria", <<>>)
        hasQuestion == TruthyStr(question) /\ Len(question) > 20
        return(score, passed, suggestions) ==
            QualityGateResult("decision_clarity", passed, score,
                QUALITY_GATE_THRESHOLD,
                "Decision framing: " \o ToString(Len(options)) \o " options, "
                  \o ToString(Len(constraints)) \o " constraints" \o
                  (IF passed THEN " - Well-framed" ELSE " - Needs refinement"),
                IF ~passed THEN suggestions ELSE <<>>,
                ~passed /\ FLt(score, Dec(60)))
        judge(score, suggestions) ==
            return(score, FGe(score, QUALITY_GATE_THRESHOLD), suggestions)
    IN  judge(
            Clamp(AddIf(AddIf(AddIf(AddIf(FZero,
                hasQuestion, Dec(30)),
                Len(options) >= 2, Dec(25)),
                Len(constraints) >= 1, Dec(20)),
                Len(success_criteria) >= 1, Dec(25))),
            Unless(Unless(Unless(Unless(<<>>,
                hasQuestion, "Provide a clear, specific decision question"),
                Len(options) >= 2, "Identify at least 2 options to evaluate"),
                Len(constraints) >= 1,
                    "Document constraints affecting the decision"),
                Len(success_criteria) >= 1, "Define what success looks like"))

required_perspectives ==
    << <<"developer_experience", "Analyze developer experience perspective">>,
       <<"architecture", "Analyze architecture perspective">>,
       <<"user_impact", "Analyze user impact perspective">>,
       <<"resource_cost", "Analyze resource cost perspective">>,
       <<"security", "Analyze security perspective">>,
       <<"time_horizon", "Analyze time horizon perspective">> >>

\* mutant: the factor 0.9 dropped
PerspectiveWeight_sixth == FDiv(1, 6)

\* 1/6 * 0.9
PerspectiveWeight == FMul(FDiv(1, 6), Dec(90))

\* the loop over required_perspectives from entry i on; yields
\* <<covered, score, suggestions>>
RECURSIVE CoverPerspectives(_, _, _, _, _)
CoverPerspectives(perspectives, i, covered, score, suggestions) ==
    IF i > Len(required_perspectives) THEN <<covered, score, suggestions>>
    ELSE IF TruthyStr(Get(perspectives, required_perspectives[i][1], ""))
         THEN CoverPerspectives(perspectives, i + 1, covered + 1,
                                FAdd(score, PerspectiveWeight), suggestions)
         ELSE CoverPerspectives(perspectives, i + 1, covered, score,
                                Append(suggestions, required_perspectives[i][2]))

\* mutant: a failed verdict blocks
validate_perspective_coverage_blocks(ctx) ==
    LET data         == ctx.data
        perspectives == Get(data, "perspectives", <<>>)
        return(covered, score, passed, suggestions) ==
            QualityGateResult("perspective_coverage", passed, score,
                QUALITY_GATE_THRESHOLD,
                "Perspective coverage: " \o ToString(covered)
                  \o "/6 perspectives analyzed" \o
                  (IF passed THEN " - Comprehensive analysis"
                             ELSE " - Missing perspectives"),
                IF ~passed THEN suggestions ELSE <<>>,
                ~passed)
        judge(covered, score, suggestions) ==
            return(covered, score, FGe(score, QUALITY_GATE_THRESHOLD),
                   suggestions)
        after(loop) ==
            judge(loop[1],
                  Clamp(AddIf(loop[2],
                      Get(data, "weights_assigned", FALSE), Dec(10))),
                  loop[3])
    IN  after(CoverPerspectives(perspectives, 1, 0, FZero, <<>>))

validate_perspective_coverage(ctx) ==
    LET data         == ctx.data
        perspectives == Get(data, "perspectives", <<>>)
        return(covered, score, passed, suggestions) ==
            QualityGateResult("perspective_coverage", passed, score,
                QUALITY_GATE_THRESHOLD,
                "Perspective coverage: " \o ToString(covered)
                  \o "/6 perspectives analyzed" \o
                  (IF passed THEN " - Comprehensive analysis"
                             ELSE " - Missing perspectives"),
                IF ~passed THEN suggestions ELSE <<>>,
                FALSE)
        judge(covered, score, suggestions) ==
            return(covered, score, FGe(score, QUALITY_GATE_THRESHOLD),
                   suggestions)
        after(loop) ==
            judge(loop[1],
                  Clamp(AddIf(loop[2],
                      Get(data, "weights_assigned", FALSE), Dec(10))),
                  loop[3])
    IN  after(CoverPerspectives(perspectives, 1, 0, FZero, <<>>))

validate_decision_confidence(ctx) ==
    LET data == ctx.data
        recommendation  == Get(data, "recommendation", <<>>)
        confidence      == Get(recommendation, "confidence", FZero)
        rationale       == Get(recommendation, "rationale", "")
        dissenting_view == Get(data, "dissenting_view", "")
        hasRationale == TruthyStr(rationale) /\ Len(rationale) > 50
        confidence_level(score) ==
            IF FGe(score, Dec(80)) THEN "HIGH"
            ELSE IF FGe(score, Dec(60)) THEN "MEDIUM" ELSE "LOW"
        return(score, passed, suggestions) ==
            QualityGateResult("decision_confidence", passed, score,
                QUALITY_GATE_THRESHOLD,
                "Decision confidence: " \o confidence_level(score) \o " ("
                  \o Fmt2(score) \o ")" \o
                  (IF passed THEN " - Confident recommendation"
                             ELSE " - Consider prototyping"),
                IF ~passed THEN suggestions ELSE <<>>,
                FALSE)
        judge(score, suggestions) ==
            return(score, FGe(score, QUALITY_GATE_THRESHOLD), suggestions)
    IN  judge(
            BoostIf(BoostIf(confidence,
                hasRationale, Dec(10)),
                TruthyStr(dissenting_view), Dec(5)),
            Unless(Unless(<<>>,
                hasRationale, "Provide detailed rationale for recommendation"),
                TruthyStr(dissenting_view),
                    "Acknowledge strongest counter-argument"))

(***************************************************************************)
(* Memory keeper gate.                                                     *)
(***************************************************************************)
\* mutant: the default threshold instead of the lowered one
relevance_threshold_default == QUALITY_GATE_THRESHOLD

relevance_threshold == Dec(70)

validate_memory_relevance(ctx) ==
    LET data == ctx.data
        matches       == Get(data, "matches", <<>>)
        top_relevance == Get(data, "top_relevance", FZero)
        high_relevance_count ==
            Cardinality({i \in 1..Len(matches) :
                FGe(Get(matches[i], "relevance", FZero), Dec(70))})
        return(score, passed) ==
            QualityGateResult("memory_relevance", passed, score,
                relevance_threshold,
                "Memory relevance: " \o ToString(Len(matches))
                  \o " matches, top relevance " \o Fmt2(top_relevance) \o
                  (IF passed THEN " - Good matches" ELSE " - Low relevance"),
                IF ~passed
                THEN Unless(<<>>, passed,
                            "Consider alternative search strategies")
                ELSE <<>>,
                FALSE)
        judge(score) == return(score, FGe(score, relevance_threshold))
    IN  IF matches = <<>>
        THEN QualityGateResult("memory_relevance", FALSE, FZero,
                 relevance_threshold, "No matching memories found",
                 <<"Broaden search terms", "Check alternative categories">>,
                 FALSE)
        ELSE judge(BoostIf(top_relevance, high_relevance_count >= 2, Dec(10)))


(***************************************************************************)
(* Gate registry and validation.                                           *)
(***************************************************************************)
GATE_VALIDATORS ==
    {"input_clarity", "source_coverage", "synthesis_quality",
     "requirements_clarity", "code_quality", "test_coverage", "no_regressions",
     "review_completeness", "security_check",
     "decision_clarity", "perspective_coverage", "decision_confidence",
     "memory_relevance"}

\* GATE_VALIDATORS[gate_name](ctx)
CallValidator(gate_name, ctx) ==
    CASE gate_name = "input_clarity" -> validate_input_clarity(ctx)
      [] gate_name = "source_coverage" -> validate_source_coverage(ctx)
      [] gate_name = "synthesis_quality" -> validate_synthesis_quality(ctx)
      [] gate_name = "requirements_clarity" -> validate_requirements_clarity(ctx)
      [] gate_name = "code_quality" -> validate_code_quality(ctx)
      [] gate_name = "test_coverage" -> validate_test_coverage(ctx)
      [] gate_name = "no_regressions" -> validate_no_regressions(ctx)
      [] gate_name = "review_completeness" -> validate_review_completeness(ctx)
      [] gate_name = "security_check" -> validate_security_check(ctx)
      [] gate_name = "decision_clarity" -> validate_decision_clarity(ctx)
      [] gate_name = "perspective_coverage" -> validate_perspective_coverage(ctx)
      [] gate_name = "decision_confidence" -> validate_decision_confidence(ctx)
      [] gate_name = "memory_relevance" -> validate_memory_relevance(ctx)

\* mutant: an unregistered gate fails instead of passing
validate_gate_failclosed(gate_name, context) ==
    IF gate_name \notin GATE_VALIDATORS
    THEN QualityGateResult(gate_name, FALSE, FZero, QUALITY_GATE_THRESHOLD,
             "No validator defined for gate '" \o gate_name \o "' - auto-pass",
             <<>>, FALSE)
    ELSE CallValidator(gate_name,
             GateContext(Get(context, "session_id", "unknown"),
                         Get(context, "agent_type", "unknown"),
                         Get(context, "phase", "unknown"),
                         Get(context, "data", <<>>),
                         Get(context, "history", PyNone)))

validate_gate(gate_name, context) ==
    IF gate_name \notin GATE_VALIDATORS
    THEN QualityGateResult(gate_name, TRUE, FInt(1), QUALITY_GATE_THRESHOLD,
             "No validator defined for gate '" \o gate_name \o "' - auto-pass",
             <<>>, FALSE)
    ELSE CallValidator(gate_name,
             GateContext(Get(context, "session_id", "unknown"),
                         Get(context, "agent_type", "unknown"),
                         Get(context, "phase", "unknown"),
                         Get(context, "data", <<>>),
                         Get(context, "history", PyNone)))

\* mutant: the upper boundary taken strictly
get_confidence_action_strict(confidence) ==
    IF FGt(confidence, Dec(80)) THEN "proceed"
    ELSE IF FGe(confidence, Dec(60)) THEN "clarify"
    ELSE "block"

\* mutant: blocks only under 0.5
get_confidence_action_lenient(confidence) ==
    IF FGe(confidence, Dec(80)) THEN "proceed"
    ELSE IF FGe(confidence, Dec(50)) THEN "clarify"
    ELSE "block"

get_confidence_action(confidence) ==
    IF FGe(confidence, Dec(80)) THEN "proceed"
    ELSE IF FGe(confidence, Dec(60)) THEN "clarify"
    ELSE "block"

(***************************************************************************)
(* Inputs: the context dictionaries handed to validate_gate.               *)
(***************************************************************************)
\* the dicts with no key, or with the one key k and a value of V
Opt(k, V) == {<<>>} \cup {[x \in {k} |-> v] : v \in V}

\* the union of two dicts with disjoint keys
Merge(d1, d2) ==
    [x \in DOMAIN d1 \cup DOMAIN d2 |-> IF x \in DOMAIN d1 THEN d1[x] ELSE d2[x]]

Both(A, B) == {Merge(a, b) : a \in A, b \in B}

\* a list of n distinct strs
List(n) == [i \in 1..n |-> "t" \o ToString(i)]

Lists(n) == {List(k) : k \in 0..n}

\* a str of n characters
RECURSIVE StrOfLen(_)
StrOfLen(n) == IF n = 0 THEN "" ELSE "x" \o StrOfLen(n - 1)

\* numeric field values, negative and above 1.0 included
Numbers == {FDiv(5 * n, 100) : n \in (0 - MaxTwentieths)..MaxTwentieths}

RECURSIVE Fillers(_)
Fillers(n) == IF n = 0 THEN <<>> ELSE <<" ", "z", "z">> \o Fillers(n - 1)

LeadWords ==
    {<<>>, <<"H", "o", "w">>, <<"A", "P", "I">>, <<"s", "h", "o", "w", "n">>,
     <<"h", "o", "w", " ", "a", "p", "i">>}

Queries ==
    {<<>>, <<" ">>, PyNone}
    \cup {lead \o Fillers(n) : lead \in LeadWords, n \in 0..MaxWords}

Flags(keys) == UNION {[K -> BOOLEAN] : K \in SUBSET keys}

GateData(g) ==
    CASE g = "input_clarity" -> Opt("query", Queries)
      [] g = "source_coverage" ->
            Both(Both(Opt("sources_examined", (0 - 1)..MaxCount),
                      Opt("files_read", 0..1)),
                 Both(Opt("web_sources", 0..1), Opt("patterns_found", 0..2)))
      [] g = "synthesis_quality" ->
            Both(Both(Opt("findings", Lists(MaxList)),
                      Opt("recommendations", Lists(1))),
                 Both(Opt("trade_offs", Lists(1)),
                      Opt("confidence", {PyNone, Dec(90)})))
      [] g = "requirements_clarity" ->
            Both(Both(Opt("task", {"", StrOfLen(10), StrOfLen(11)}),
                      Opt("acceptance_criteria", Lists(MaxList))),
                 Both(Opt("scope", Both(Opt("files", Lists(1)),
                                        Opt("modules", Lists(1)))),
                      Opt("edge_cases", Lists(1))))
      [] g = "code_quality" ->
            Opt("quality_checks",
                Flags({"typescript_types", "error_handling", "no_debug_code",
                       "follows_patterns", "comments_explain_why"}))
      [] g = "test_coverage" ->
            Both(Both(Opt("tests_added", 0..MaxList),
                      Opt("coverage_percent", {0, 59, 60, 79, 80, 100})),
                 Opt("test_types",
                     Flags({"happy_path", "edge_cases", "error_handling"})))
      [] g = "no_regressions" ->
            Both(Both(Opt("tests_run", (0 - 1)..MaxTests),
                      Opt("tests_passed", (0 - 1)..MaxTests)),
                 Both(Opt("tests_failed", (0 - 1)..2),
                      Opt("new_failures", Lists(MaxFailures))))
      [] g = "review_completeness" ->
            Opt("dimensions_reviewed",
                Flags({"correctness", "security", "performance",
                       "maintainability", "test_coverage"}))
      [] g = "security_check" ->
            Opt("security_checks",
                Flags({"input_validation", "output_encoding", "auth_checks",
                       "no_data_exposure", "injection_prevention"}))
      [] g = "decision_clarity" ->
            Both(Both(Opt("question", {"", StrOfLen(20), StrOfLen(21)}),
                      Opt("options", Lists(MaxList))),
                 Both(Opt("constraints", Lists(1)),
                      Opt("success_criteria", Lists(1))))
      [] g = "perspective_coverage" ->
            Both(Opt("perspectives",
                     UNION {[K -> {"", "analysis"}] :
                            K \in SUBSET {"developer_experience", "architecture",
                                          "user_impact", "resource_cost",
                                          "security", "time_horizon"}}),
                 Opt("weights_assigned", BOOLEAN))
      [] g = "decision_confidence" ->
            Both(Opt("recommendation",
                     Both(Opt("confidence", Numbers),
                          Opt("rationale", {"", StrOfLen(50), StrOfLen(51)}))),
                 Opt("dissenting_view", {"", "counter"}))
      [] g = "memory_relevance" ->
            Both(Opt("matches",
                     UNION {[1..n -> Opt("relevance", {Dec(65), Dec(70)})] :
                            n \in 0..MaxMatches}),
                 Opt("top_relevance", Numbers))
      [] OTHER -> Opt("query", {<<"H", "o", "w">>})

UnknownGates == {"input_clarty", "unknown_gate", ""}

GateNames == GATE_VALIDATORS \cup UnknownGates

\* a context with or without its data
Contexts(g) == {<<>>} \cup {[data |-> d] : d \in GateData(g)}

ResolverInputs == {FDiv(n, 100) : n \in (0 - MaxPercent)..MaxPercent}

NoResult == QualityGateResult("", FALSE, FZero, FZero, "", <<>>, FALSE)

(***************************************************************************)
(* Transport: the single POST of an envelope to the events endpoint, as    *)
(* written three times (quality_gates.emit_gate_event,                     *)
(* protocol_event.send_event, send_event.send_event).                      *)
(***************************************************************************)
\* what the network does with one POST: a response with a status, no
\* answer within the timeout, or no connection
Outcomes ==
    {[kind |-> "status", status |-> s] :
        s \in {200, 201, 204, 404, 503}}
    \cup {[kind |-> k, status |-> 0] : k \in {"timeout", "refused"}}

NoResponse == [kind |-> "none", status |-> 0]

\* the exception urlopen(req, timeout=5) raises on an outcome, "" when it
\* returns the response
urlopen_raises(outcome) ==
    IF outcome.kind = "refused" THEN "URLError"
    ELSE IF outcome.kind = "timeout" THEN "TimeoutError"
    ELSE IF outcome.status < 200 \/ outcome.status >= 300 THEN "HTTPError"
    ELSE ""

\* how a call ends: with a value, or with an exception that reaches the caller
Return(value) == [raised |-> "", value |-> value]

Raise(exception) == [raised |-> exception, value |-> FALSE]

\* the try block of emit_gate_event: json.dumps, urlopen, except Exception
emit_gate_event(serializable, outcome) ==
    IF ~serializable THEN Return(FALSE)
    ELSE IF urlopen_raises(outcome) # "" THEN Return(FALSE)
    ELSE Return(outcome.status \in {200, 201})

\* mutant: only URLError is caught
protocol_event_send_event_narrow(serializable, outcome) ==
    IF ~serializable THEN Raise("TypeError")
    ELSE IF urlopen_raises(outcome) \in {"URLError", "HTTPError"}
         THEN Return(FALSE)
    ELSE IF urlopen_raises(outcome) # "" THEN Raise(urlopen_raises(outcome))
    ELSE Return(outcome.status \in {200, 201})

\* send_event of protocol_event.py: except URLError, except Exception
protocol_event_send_event(serializable, outcome) ==
    IF ~serializable THEN Return(FALSE)
    ELSE IF urlopen_raises(outcome) \in {"URLError", "HTTPError"}
         THEN Return(FALSE)
    ELSE IF urlopen_raises(outcome) # "" THEN Return(FALSE)
    ELSE Return(outcome.status \in {200, 201})

\* send_event of send_event.py: except URLError, except Exception
send_event_send_event(serializable, outcome) ==
    IF ~serializable THEN Return(FALSE)
    ELSE IF urlopen_raises(outcome) \in {"URLError", "HTTPError"}
         THEN Return(FALSE)
    ELSE IF urlopen_raises(outcome) # "" THEN Return(FALSE)
    ELSE Return(outcome.status = 200 \/ outcome.status = 201)

\* the three transport functions by name
Senders ==
    {"emit_gate_event", "protocol_event.send_event", "send_event.send_event"}

CallSender(fn, serializable, outcome) ==
    CASE fn = "emit_gate_event" -> emit_gate_event(serializable, outcome)
      [] fn = "protocol_event.send_event" ->
            protocol_event_send_event(serializable, outcome)
      [] fn = "send_event.send_event" ->
            send_event_send_event(serializable, outcome)

\* datetime.now().strftime('%Y%m%d-%H%M%S') and datetime.utcnow().isoformat()
\* at the one instant of a run
NowStamp == "20260101-120000"

UtcNowIso == "2026-01-01T12:00:00.000000"

\* result.to_dict(): asdict(result)
to_dict(r) == [f \in DOMAIN r |-> r[f]]

\* result.to_json(): the JSON text of the dict, held as the dict it spells
to_json(r) == <<"json", to_dict(r)>>

\* the envelope emit_gate_event builds: {"agent_type": agent_type, **to_dict}
gate_event(r, agent_type, env) ==
    [source_app |-> "claude-code",
     session_id |-> Get(env, "CLAUDE_SESSION_ID", "session-" \o NowStamp),
     hook_event_type |-> "QualityGate",
     timestamp |-> UtcNowIso \o "Z",
     payload |-> Merge(to_dict(r), [agent_type |-> agent_type])]

(***************************************************************************)
(* Inputs of the entrypoints.  The text on stdin is held as the outcome of *)
(* sys.stdin.isatty() and json.load(): whether it parses, the Python type  *)
(* of the parsed value, the value, and the type of its "data" entry.  A   *)
(* parsed value or a data entry that is not a dict is held as <<>>: only   *)
(* its type decides what the entrypoint does with it.                      *)
(***************************************************************************)
Stdin(isatty, parses, type, value, data_type) ==
    [isatty |-> isatty, parses |-> parses, type |-> type, value |-> value,
     data_type |-> data_type]

Terminal == Stdin(TRUE, FALSE, "", <<>>, "")

Unparseable == Stdin(FALSE, FALSE, "", <<>>, "")

\* parseable JSON that is not an object
NonObjects ==
    {Stdin(FALSE, TRUE, "list", <<>>, ""),
     Stdin(FALSE, TRUE, "str", <<>>, ""),
     Stdin(FALSE, TRUE, "int", <<>>, ""),
     Stdin(FALSE, TRUE, "NoneType", <<>>, "")}

Environs == {<<>>, [CLAUDE_SESSION_ID |-> "session-env"]}

\* data of a passing and of a failing context of the gate
MainData(g) ==
    CASE g = "no_regressions" ->
            {[tests_run |-> 10, tests_passed |-> 10, tests_failed |-> 0],
             [tests_run |-> 10, tests_passed |-> 9, tests_failed |-> 1,
              new_failures |-> <<"t1">>]}
      [] OTHER -> {[query |-> <<"H", "o", "w">>]}

MainStdin(g) ==
    {Terminal, Unparseable}
    \cup NonObjects
    \cup {Stdin(FALSE, TRUE, "dict", <<>>, "absent"),
          Stdin(FALSE, TRUE, "dict", [data |-> <<>>], "dict"),
          Stdin(FALSE, TRUE, "dict", [data |-> <<>>], "list"),
          Stdin(FALSE, TRUE, "dict", [data |-> <<>>], "str"),
          Stdin(FALSE, TRUE, "dict", [data |-> <<>>], "NoneType")}
    \cup {Stdin(FALSE, TRUE, "dict", [data |-> d], "dict") : d \in MainData(g)}
    \cup {Stdin(FALSE, TRUE, "dict",
                [agent_type |-> "intruder", session_id |-> "s", data |-> d],
                "dict") : d \in MainData(g)}

\* the arguments of quality_gates.py: --gate (a registered gate and one
\* that is not), --agent, --emit
MainArgs ==
    [gate : {"no_regressions", "unknown_gate"},
     agent : {"researcher", "reviewer"}, emit : BOOLEAN]

\* a direct call of one of the transport functions
SendArgs == [fn : Senders, serializable : BOOLEAN]

\* the envelopes handed to it
SendEvents ==
    {gate_event(QualityGateResult(g, p, FZero, QUALITY_GATE_THRESHOLD, "", <<>>, FALSE),
                a, <<>>) :
        g \in {"input_clarity", "code_quality"}, p \in BOOLEAN,
        a \in {"researcher", "reviewer"}}

(***************************************************************************)
(* JSON.  A parsed value is held under the name of its Python type: None,  *)
(* bool, int, float (in hundredths), str, list, dict (items in order).  A  *)
(* text is a sequence of pieces: the characters " and \, the punctuation   *)
(* json.dumps writes, digits, and runs of other characters.                *)
(***************************************************************************)
JNull == [null |-> <<>>]

JBool(b) == [bool |-> b]

JInt(n) == [int |-> n]

\* the float nearest to n/100
JNum(n) == [num |-> n]

JStr(s) == [str |-> s]

JList(xs) == [list |-> xs]

JDict(items) == [dict |-> items]

TypeOf(v) == CHOOSE k \in DOMAIN v : TRUE

Digit(d) == <<"0", "1", "2", "3", "4", "5", "6", "7", "8", "9">>[d + 1]

RECURSIVE Digits(_)
Digits(n) ==
    IF n < 10 THEN <<Digit(n)>> ELSE Digits(n \div 10) \o <<Digit(n % 10)>>

\* int.__repr__
IntRepr(n) == IF n < 0 THEN <<"-">> \o Digits(0 - n) ELSE Digits(n)

\* float.__repr__ of the float nearest to n/100, n >= 0: the shortest
\* decimal that reads back as that float
FloatReprAbs(n) ==
    Digits(n \div 100) \o <<".", Digit((n % 100) \div 10)>>
    \o (IF n % 10 = 0 THEN <<>> ELSE <<Digit(n % 10)>>)

FloatRepr(n) ==
    IF n < 0 THEN <<"-">> \o FloatReprAbs(0 - n) ELSE FloatReprAbs(n)

\* mutant: quotes and backslashes are written as they are
py_encode_basestring_raw(s) == <<"\"">> \o s \o <<"\"">>

RECURSIVE Escape(_)
Escape(s) ==
    IF s = <<>> THEN <<>>
    ELSE (IF Head(s) \in {"\"", "\\"} THEN <<"\\", Head(s)>> ELSE <<Head(s)>>)
         \o Escape(Tail(s))

\* json.encoder.py_encode_basestring: the string between quotes, escaped
py_encode_basestring(s) == <<"\"">> \o Escape(s) \o <<"\"">>

RECURSIVE Dumps(_), DumpsList(_), DumpsItems(_)
\* json.dumps(v) with the default separators ", " and ": "
Dumps(v) ==
    CASE TypeOf(v) = "null" -> <<"null">>
      [] TypeOf(v) = "bool" -> <<IF v.bool THEN "true" ELSE "false">>
      [] TypeOf(v) = "int" -> IntRepr(v.int)
      [] TypeOf(v) = "num" -> FloatRepr(v.num)
      [] TypeOf(v) = "str" -> py_encode_basestring(v.str)
      [] TypeOf(v) = "list" -> <<"[">> \o DumpsList(v.list) \o <<"]">>
      [] TypeOf(v) = "dict" -> <<"{">> \o DumpsItems(v.dict) \o <<"}">>

DumpsList(xs) ==
    IF xs = <<>> THEN <<>>
    ELSE Dumps(Head(xs))
         \o (IF Len(xs) = 1 THEN <<>> ELSE <<", ">> \o DumpsList(Tail(xs)))

DumpsItems(items) ==
    IF items = <<>> THEN <<>>
    ELSE py_encode_basestring(Head(items)[1]) \o <<": ">>
         \o Dumps(Head(items)[2])
         \o (IF Len(items) = 1 THEN <<>> ELSE <<", ">> \o DumpsItems(Tail(items)))

(***************************************************************************)
(* protocol_event.py: the six event builders and the envelope.  A payload  *)
(* is the dict json.load returned, its values JSON values.                 *)
(***************************************************************************)
\* a str without quotes or backslashes
Str(s) == JStr(<<s>>)

protocol_event_QUALITY_GATE_THRESHOLD == JNum(80)

\* whether Python orders the value against a float
IsNumber(v) == TypeOf(v) \in {"num", "int", "bool"}

\* the float a number compares as
AsFloat(v) ==
    CASE TypeOf(v) = "num" -> Dec(v.num)
      [] TypeOf(v) = "int" -> Dec(v.int * 100)
      [] TypeOf(v) = "bool" -> Dec(IF v.bool THEN 100 ELSE 0)

build_spawn_event(agent, payload) ==
    [event_type |-> Str("spawn"),
     agent_type |-> Str(agent),
     protocol_version |-> Str("2.0"),
     phase |-> Str("initialization"),
     confidence |-> JNum(100),
     context |->
        [task |-> Get(payload, "task", Str("")),
         scope |-> Get(payload, "scope", JDict(<<>>)),
         requirements |-> Get(payload, "requirements", JList(<<>>))]]

\* mutant: the payload's own entries come last and win
build_progress_event_spread(agent, payload) ==
    [event_type |-> Get(payload, "event_type", Str("progress")),
     agent_type |-> Get(payload, "agent_type", Str(agent)),
     protocol_version |-> Get(payload, "protocol_version", Str("2.0")),
     phase |-> Get(payload, "phase", Str("execution")),
     confidence |-> Get(payload, "confidence", JNum(50)),
     context |->
        [completed_steps |-> Get(payload, "completed_steps", JList(<<>>)),
         remaining_steps |-> Get(payload, "remaining_steps", JList(<<>>)),
         current_activity |-> Get(payload, "current_activity", Str(""))]]

build_progress_event(agent, payload) ==
    [event_type |-> Str("progress"),
     agent_type |-> Str(agent),
     protocol_version |-> Str("2.0"),
     phase |-> Get(payload, "phase", Str("execution")),
     confidence |-> Get(payload, "confidence", JNum(50)),
     context |->
        [completed_steps |-> Get(payload, "completed_steps", JList(<<>>)),
         remaining_steps |-> Get(payload, "remaining_steps", JList(<<>>)),
         current_activity |-> Get(payload, "current_activity", Str(""))]]

\* score >= QUALITY_GATE_THRESHOLD is computed before payload.get("passed")
\* looks at the payload; the caller sees that it is a number first
build_gate_event(agent, payload) ==
    [event_type |-> Str("gate"),
     agent_type |-> Str(agent),
     protocol_version |-> Str("2.0"),
     gate_name |-> Get(payload, "gate_name", Str("unknown")),
     passed |->
        Get(payload, "passed",
            JBool(FGe(AsFloat(Get(payload, "score", JNum(0))),
                      AsFloat(protocol_event_QUALITY_GATE_THRESHOLD)))),
     score |-> Get(payload, "score", JNum(0)),
     threshold |->
        Get(payload, "threshold", protocol_event_QUALITY_GATE_THRESHOLD),
     feedback |-> Get(payload, "feedback", Str("")),
     context |-> Get(payload, "context", JDict(<<>>))]

build_complete_event(agent, payload) ==
    [event_type |-> Str("complete"),
     agent_type |-> Str(agent),
     protocol_version |-> Str("2.0"),
     phase |-> Str("complete"),
     confidence |-> Get(payload, "confidence", JNum(80)),
     context |->
        [output_summary |-> Get(payload, "output_summary", Str("")),
         files_modified |-> Get(payload, "files_modified", JList(<<>>)),
         quality_metrics |-> Get(payload, "quality_metrics", JDict(<<>>)),
         duration_ms |-> Get(payload, "duration_ms", JInt(0))]]

\* mutant: a handoff without a priority is a low one
handoff_metadata_low(payload) ==
    JDict(<<<<<<"confidence">>, Get(payload, "confidence", JNum(80))>>,
            <<<<"priority">>, Get(payload, "priority", Str("low"))>>,
            <<<<"reason">>, Get(payload, "reason", Str(""))>>>>)

\* the dict build_handoff_event serializes as metadata
handoff_metadata(payload) ==
    JDict(<<<<<<"confidence">>, Get(payload, "confidence", JNum(80))>>,
            <<<<"priority">>, Get(payload, "priority", Str("medium"))>>,
            <<<<"reason">>, Get(payload, "reason", Str(""))>>>>)

build_handoff_event(agent, payload) ==
    [event_type |-> Str("handoff"),
     agent_type |-> Str(agent),
     protocol_version |-> Str("2.0"),
     from_agent |-> Str(agent),
     to_agent |-> Get(payload, "to_agent", Str("unknown")),
     handoff_type |-> Get(payload, "handoff_type", Str("task_delegation")),
     document |-> JStr(Dumps(Get(payload, "document", JDict(<<>>)))),
     metadata |-> JStr(Dumps(handoff_metadata(payload)))]

build_error_event(agent, payload) ==
    [event_type |-> Str("error"),
     agent_type |-> Str(agent),
     protocol_version |-> Str("2.0"),
     phase |-> Get(payload, "phase", Str("unknown")),
     confidence |-> JNum(0),
     context |->
        [error_code |-> Get(payload, "error_code", Str("UNKNOWN")),
         error_message |->
            Get(payload, "error_message", Str("An error occurred")),
         recoverable |-> Get(payload, "recoverable", JBool(FALSE)),
         suggestions |-> Get(payload, "suggestions", JList(<<>>))]]

EVENT_BUILDERS ==
    {"spawn", "progress", "gate", "complete", "handoff", "error"}

\* builder(args.agent, payload)
CallBuilder(event_type, agent, payload) ==
    CASE event_type = "spawn" -> build_spawn_event(agent, payload)
      [] event_type = "progress" -> build_progress_event(agent, payload)
      [] event_type = "gate" -> build_gate_event(agent, payload)
      [] event_type = "complete" -> build_complete_event(agent, payload)
      [] event_type = "handoff" -> build_handoff_event(agent, payload)
      [] event_type = "error" -> build_error_event(agent, payload)

\* the exception the builder raises on what read_stdin returned, "" when it
\* returns: payload.get needs a dict, score >= 0.8 a number
BuilderRaises(event_type, type, payload) ==
    IF type # "dict" THEN "AttributeError"
    ELSE IF event_type = "gate" /\ ~IsNumber(Get(payload, "score", JNum(0)))
         THEN "TypeError"
    ELSE ""

\* mutant: every event is routed as a ProtocolEvent
hook_event_type_map_flat(event_type) == "ProtocolEvent"

\* hook_event_type_map.get(args.event_type, "ProtocolEvent")
hook_event_type_map(event_type) ==
    CASE event_type = "gate" -> "QualityGate"
      [] event_type = "handoff" -> "AgentHandoff"
      [] event_type \in {"spawn", "progress", "complete", "error"} ->
            "ProtocolEvent"
      [] OTHER -> "ProtocolEvent"

\* the environment holds os.environ and, under getcwd, the directory of the
\* process ("" when os.getcwd() raises OSError)
get_working_directory(env) ==
    IF Get(env, "CLAUDE_CWD", "") # "" THEN env["CLAUDE_CWD"]
    ELSE IF Get(env, "PWD", "") # "" THEN env["PWD"]
    ELSE IF Get(env, "CD", "") # "" THEN env["CD"]
    ELSE IF Get(env, "getcwd", "") # "" THEN env["getcwd"]
    ELSE "unknown"

\* override "" stands for no --session-id
get_session_id(override, env) ==
    IF override # "" THEN override
    ELSE Get(env, "CLAUDE_SESSION_ID", "session-" \o NowStamp)

\* the full event main builds around the builder's payload
protocol_event(a, env, payload) ==
    [source_app |-> get_working_directory(env),
     session_id |-> get_session_id(a.session_id, env),
     hook_event_type |-> hook_event_type_map(a.event_type),
     timestamp |-> UtcNowIso \o "Z",
     payload |-> CallBuilder(a.event_type, a.agent, payload)]

\* the line main prints after the send
status_report(success, event_type) ==
    <<"json", [status |-> IF success THEN "sent" ELSE "failed",
               event_type |-> event_type]>>

(***************************************************************************)
(* Inputs of protocol_event.py.                                            *)
(***************************************************************************)
\* --agent, --event-type, --session-id ("" when it is not given)
EventArgs ==
    [agent : {"researcher", "memory-keeper"}, event_type : EVENT_BUILDERS,
     session_id : {"", "session-arg"}]

\* os.environ and the directory of the process
EventEnvirons ==
    {[getcwd |-> "/work"],
     [CLAUDE_SESSION_ID |-> "session-env", PWD |-> "/pwd", getcwd |-> "/work"],
     [CLAUDE_CWD |-> "/claude", PWD |-> "/pwd", getcwd |-> ""]}

\* payload keys that name the builders' fixed fields
Overrides ==
    [event_type |-> Str("error"), agent_type |-> Str("intruder"),
     protocol_version |-> Str("9.9"), from_agent |-> Str("intruder"),
     phase |-> Str("intrusion"), confidence |-> JNum(33)]

\* documents of a handoff: mappings, nested, with every type of value, and
\* values that are no mapping
Documents ==
    {JDict(<<>>), JList(<<>>), JNull, JStr(<<"\\", "\"">>)}
    \cup {JDict(<<<<k, JStr(s)>>>>) :
             k \in {<<"title">>, <<"a", "\"">>},
             s \in {<<>>, <<"plan">>, <<"say ", "\"", "hi", "\"">>,
                    <<"C:", "\\", "tmp">>}}
    \cup {JDict(<<<<<<"steps">>, JList(<<JInt(MaxCount), JInt(0 - MaxCount),
                                         JNum(MaxPercent), JNum(5)>>)>>,
                  <<<<"done">>, JBool(b)>>,
                  <<<<"next", "\"">>, JDict(<<<<<<"k">>, x>>>>)>>>>) :
             b \in BOOLEAN, x \in {JNull, JList(<<Str("a"), Str("b")>>)}}

\* the payloads of each shape: absent and supplied fields, for gate scores
\* around the threshold, thresholds around the score and a score that is
\* not a number; and one payload that holds the overriding keys
EventPayloads(event_type) ==
    {Overrides} \cup
    (CASE event_type = "spawn" ->
        {<<>>,
         [task |-> Str("plan")],
         [task |-> Str("plan"), scope |-> JDict(<<<<<<"dir">>, Str("src")>>>>),
          requirements |-> JList(<<Str("tests")>>)]}
      [] event_type = "progress" ->
        Both(Opt("phase", {Str("synthesis"), Str("execution")}),
             Opt("confidence", {JNum(85), JNum(50), JInt(1)}))
        \cup {[completed_steps |-> JList(<<Str("read")>>),
               current_activity |-> Str("write")]}
      [] event_type = "gate" ->
        Both(Opt("score", {JNum(75), JNum(80), JNum(85), JInt(1), Str("high")}),
             Both(Opt("threshold", {JNum(70), JNum(90)}),
                  Opt("passed", {JBool(TRUE), JBool(FALSE)})))
        \cup {[gate_name |-> Str("input_clarity"), score |-> JNum(88),
               feedback |-> Str("clear")]}
      [] event_type = "complete" ->
        Both(Opt("confidence", {JNum(80), JNum(95)}),
             Opt("duration_ms", {JInt(0), JInt(1500)}))
        \cup {[output_summary |-> Str("done")]}
      [] event_type = "handoff" ->
        Both(Opt("document", Documents), Opt("to_agent", {Str("implementer")}))
        \cup Both(Opt("document", {JDict(<<<<<<"title">>, Str("plan")>>>>)}),
                  {[to_agent |-> Str("reviewer"),
                    handoff_type |-> Str("review_request"),
                    priority |-> Str("high"), confidence |-> JNum(90),
                    reason |-> JStr(<<"see ", "\"", "plan", "\"">>)],
                   [priority |-> Str("medium"),
                    handoff_type |-> Str("task_delegation")]})
      [] event_type = "error" ->
        Both(Opt("error_code", {Str("E42"), Str("UNKNOWN")}),
             Opt("recoverable", {JBool(TRUE), JBool(FALSE)}))
        \cup {[phase |-> Str("execution"), error_message |-> Str("boom")]})

\* what stdin holds in a run of protocol_event.py
EventStdin(event_type) ==
    {Terminal, Unparseable}
    \cup NonObjects
    \cup {Stdin(FALSE, TRUE, "dict", p, "") : p \in EventPayloads(event_type)}

(***************************************************************************)
(* send_event.py: the generic hook.  It reads a hook payload from stdin,   *)
(* adds observability data and the protocol fields of the command line,    *)
(* and posts the event.  Option texts and payload strings that are         *)
(* searched are sequences of one-character pieces.                         *)
(***************************************************************************)
PROTOCOL_EVENT_TYPES ==
    {"ProtocolEvent", "QualityGate", "AgentHandoff", "MemoryOperation"}

\* the digit a character writes
DigitOf(c) == CHOOSE d \in 0..9 : Digit(d) = c

RECURSIVE ParseDigits(_)
ParseDigits(s) ==
    IF s = <<>> THEN 0
    ELSE 10 * ParseDigits(SubSeq(s, 1, Len(s) - 1)) + DigitOf(s[Len(s)])

\* float(text) of a decimal with one or two places, in hundredths
ParseFloat(s) ==
    LET dot  == CHOOSE i \in 1..Len(s) : s[i] = "."
        frac == SubSeq(s, dot + 1, Len(s))
    IN  100 * ParseDigits(SubSeq(s, 1, dot - 1))
        + 10 * DigitOf(frac[1])
        + (IF Len(frac) > 1 THEN DigitOf(frac[2]) ELSE 0)

\* type=float, type=bool of argparse: the converter applied to the text of
\* an option that is given, None for one that is not
Converted(text, type) ==
    IF text = JNull THEN JNull
    ELSE IF type = "float" THEN JNum(ParseFloat(text.str))
    ELSE JBool(text.str # <<>>)

\* parse_args(): the Namespace of a command line; str options are "" when
\* they are not given
parse_args(argv) ==
    [source_app |-> argv.source_app,
     event_type |-> argv.event_type,
     agent_type |-> argv.agent_type,
     phase |-> argv.phase,
     confidence |-> Converted(argv.confidence, "float"),
     gate_name |-> argv.gate_name,
     gate_passed |-> Converted(argv.gate_passed, "bool"),
     gate_score |-> Converted(argv.gate_score, "float")]

\* tool_input.get(key, default) of a parsed JSON object
RECURSIVE ItemsGet(_, _, _)
ItemsGet(items, key, default) ==
    IF items = <<>> THEN default
    ELSE IF items[Len(items)][1] = <<key>> THEN items[Len(items)][2]
    ELSE ItemsGet(SubSeq(items, 1, Len(items) - 1), key, default)

\* key in tool_input
HasItem(items, key) == \E i \in 1..Len(items) : items[i][1] = <<key>>

\* truth value of a parsed JSON value
JTruthy(v) ==
    CASE TypeOf(v) = "null" -> FALSE
      [] TypeOf(v) = "bool" -> v.bool
      [] TypeOf(v) = "int" -> v.int # 0
      [] TypeOf(v) = "num" -> v.num # 0
      [] TypeOf(v) = "str" -> v.str # <<>>
      [] TypeOf(v) = "list" -> v.list # <<>>
      [] TypeOf(v) = "dict" -> v.dict # <<>>

RECURSIVE TextLen(_)
TextLen(text) ==
    IF text = <<>> THEN 0 ELSE Len(Head(text)) + TextLen(Tail(text))

\* the characters json.dumps writes for the items of the payload
RECURSIVE ItemsLen(_, _)
ItemsLen(payload, keys) ==
    IF keys = {} THEN 0
    ELSE Len(CHOOSE k \in keys : TRUE) + 4
         + TextLen(Dumps(payload[CHOOSE k \in keys : TRUE]))
         + (IF Cardinality(keys) > 1 THEN 2 ELSE 0)
         + ItemsLen(payload, keys \ {CHOOSE k \in keys : TRUE})

\* len(json.dumps(payload)) // 4
estimate_tokens(payload) == (2 + ItemsLen(payload, DOMAIN payload)) \div 4

\* a number written with n digits, zeros first
RECURSIVE ZeroFill(_, _)
ZeroFill(n, width) ==
    IF width = 0 THEN <<>>
    ELSE ZeroFill(n \div 10, width - 1) \o <<Digit(n % 10)>>

\* f"{estimate_cost(tokens):.6f}" at the rate 0.000006 of claude-sonnet-4
estimate_cost(tokens) ==
    JStr(Digits((6 * tokens) \div 1000000) \o <<".">>
         \o ZeroFill((6 * tokens) % 1000000, 6))

AgentMentions ==
    << <<<<"@", "r", "e", "s", "e", "a", "r", "c", "h", "e", "r">>, "researcher">>,
       <<<<"@", "i", "m", "p", "l", "e", "m", "e", "n", "t", "e", "r">>,
         "implementer">>,
       <<<<"@", "r", "e", "v", "i", "e", "w", "e", "r">>, "reviewer">>,
       <<<<"@", "c", "o", "n", "s", "e", "n", "s", "u", "s">>, "consensus">>,
       <<<<"@", "m", "e", "m", "o", "r", "y", "-", "k", "e", "e", "p", "e", "r">>,
         "memory-keeper">> >>

\* the first agent whose mention is in the prompt, "" when there is none
Mentioned(prompt) ==
    IF \E i \in 1..Len(AgentMentions) : Contains(Lower(prompt), AgentMentions[i][1])
    THEN AgentMentions[CHOOSE i \in 1..Len(AgentMentions) :
            /\ Contains(Lower(prompt), AgentMentions[i][1])
            /\ \A j \in 1..(i - 1) :
                  ~Contains(Lower(prompt), AgentMentions[j][1])][2]
    ELSE ""

\* "subagent" in text.lower(), for a key or a str of the payload
NamesSubagent(text) ==
    \/ \E i \in 1..Len(text) : text[i] \in {"subagent", "subagent_type", "SubagentStop"}
    \/ Contains(Lower(text), <<"s", "u", "b", "a", "g", "e", "n", "t">>)

\* "subagent" in str(v).lower(), for a parsed JSON value
RECURSIVE ValueNamesSubagent(_)
ValueNamesSubagent(v) ==
    CASE TypeOf(v) = "str" -> NamesSubagent(v.str)
      [] TypeOf(v) = "list" ->
            \E i \in 1..Len(v.list) : ValueNamesSubagent(v.list[i])
      [] TypeOf(v) = "dict" ->
            \E i \in 1..Len(v.dict) :
                NamesSubagent(v.dict[i][1]) \/ ValueNamesSubagent(v.dict[i][2])
      [] OTHER -> FALSE

\* the prompt, or the message when there is no prompt
PromptOf(tool_input) ==
    IF JTruthy(ItemsGet(tool_input.dict, "prompt", JStr(<<>>)))
    THEN ItemsGet(tool_input.dict, "prompt", JStr(<<>>))
    ELSE ItemsGet(tool_input.dict, "message", JStr(<<>>))

\* whether the tool input is a dict whose prompt mentions an agent
MentionsAgent(payload) ==
    /\ TypeOf(Get(payload, "tool_input", JDict(<<>>))) = "dict"
    /\ TypeOf(PromptOf(Get(payload, "tool_input", JDict(<<>>)))) = "str"
    /\ Mentioned(PromptOf(Get(payload, "tool_input", JDict(<<>>))).str) # ""

extract_agent_name(payload) ==
    IF MentionsAgent(payload)
    THEN Str(Mentioned(PromptOf(Get(payload, "tool_input", JDict(<<>>))).str))
    ELSE IF \E k \in DOMAIN payload :
                NamesSubagent(<<k>>) \/ ValueNamesSubagent(payload[k])
         THEN Get(payload, "agent_name", Str("subagent"))
    ELSE JNull

\* the entries of d under the keys
Only(d, keys) == [k \in DOMAIN d \cap keys |-> d[k]]

\* the entries the nested tool input contributes
FromToolInput(tool_input) ==
    IF TypeOf(tool_input) # "dict" THEN <<>>
    ELSE Merge(IF HasItem(tool_input.dict, "subagent_type")
               THEN [agent_type |-> ItemsGet(tool_input.dict, "subagent_type", JNull)]
               ELSE <<>>,
               IF HasItem(tool_input.dict, "phase")
               THEN [phase |-> ItemsGet(tool_input.dict, "phase", JNull)]
               ELSE <<>>)

extract_protocol_info(payload) ==
    Merge(FromToolInput(Get(payload, "tool_input", JDict(<<>>))),
          Only(payload, {"phase", "confidence", "gate_name", "passed", "score"}))

\* the entry payload[key] = value when the condition holds
SetIf(cond, key, value) == IF cond THEN [k \in {key} |-> value] ELSE <<>>

build_protocol_payload(a, base_payload) ==
    Merge(SetIf(a.agent_type # "", "agent_type", Str(a.agent_type)),
    Merge(SetIf(a.phase # "", "phase", Str(a.phase)),
    Merge(SetIf(a.confidence # JNull, "confidence", a.confidence),
    Merge(SetIf(a.gate_name # "", "gate_name", Str(a.gate_name)),
    Merge(SetIf(a.gate_passed # JNull, "passed", a.gate_passed),
    Merge(SetIf(a.gate_score # JNull, "score", a.gate_score),
          base_payload))))))

\* the payload of the base event: {**payload, ..., **protocol_info}
base_event_payload(payload) ==
    Merge(extract_protocol_info(payload),
    Merge([tokens_used |-> JInt(estimate_tokens(payload)),
           cost_usd |-> estimate_cost(estimate_tokens(payload)),
           duration_ms |-> Get(payload, "duration_ms", JInt(0)),
           success |-> Get(payload, "success", JBool(TRUE)),
           test_passed |-> Get(payload, "test_passed", JNull),
           tool_name |-> Get(payload, "tool_name", JNull),
           tool_input |-> Get(payload, "tool_input", JNull),
           agent_name |-> extract_agent_name(payload)],
          payload))

\* the payload after the command line's protocol fields were added
cli_event_payload(a, payload) ==
    IF a.agent_type # "" \/ a.phase # "" \/ a.confidence # JNull
    THEN build_protocol_payload(a, base_event_payload(payload))
    ELSE base_event_payload(payload)

\* the event main of send_event.py posts
hook_event(a, env, payload) ==
    [source_app |-> IF a.source_app # "" THEN a.source_app
                    ELSE get_working_directory(env),
     session_id |-> get_session_id("", env),
     hook_event_type |-> a.event_type,
     timestamp |-> UtcNowIso \o "Z",
     payload |-> Merge(SetIf(a.event_type \in PROTOCOL_EVENT_TYPES,
                             "protocol_version", Str("2.0")),
                       cli_event_payload(a, payload))]

(***************************************************************************)
(* Inputs of send_event.py.                                                *)
(***************************************************************************)
\* the command line: the text of each option; a str option that is not
\* given is "", a converted option that is not given is None
HookArgv ==
    [source_app : {""},
     event_type : {"QualityGate", "PostToolUse"},
     agent_type : {"", "reviewer"},
     phase : {"", "review"},
     confidence : {JNull, JStr(<<"0", ".", "9">>)},
     gate_name : {"", "security_check"},
     gate_passed : {JNull, JStr(<<"True">>), JStr(<<"False">>)},
     gate_score : {JNull, JStr(<<"0", ".", "7", "5">>)}]

\* hook payloads: none, a tool call, one with protocol fields of its own,
\* one whose tool input names a subagent and mentions an agent
HookPayloads ==
    {<<>>,
     [tool_name |-> Str("Bash"), tool_input |-> Str("ls")],
     [agent_type |-> Str("researcher"), phase |-> Str("planning"),
      confidence |-> JNum(50), gate_name |-> Str("input_clarity"),
      passed |-> JBool(FALSE), score |-> JNum(10),
      protocol_version |-> Str("1.0")],
     [protocol_version |-> Str("2.0"), duration_ms |-> JInt(1500)],
     [tool_name |-> Str("Task"), agent_name |-> Str("helper"),
      tool_input |->
         JDict(<<<<<<"subagent_type">>, Str("implementer")>>,
                 <<<<"phase">>, Str("execution")>>,
                 <<<<"prompt">>,
                   JStr(<<"a", "s", "k", " ", "@", "R", "e", "v", "i", "e",
                          "w", "e", "r">>)>>>>)]}

HookStdin ==
    {Terminal, Unparseable, Stdin(FALSE, TRUE, "list", <<>>, "")}
    \cup {Stdin(FALSE, TRUE, "dict", p, "") : p \in HookPayloads}
(***************************************************************************)
(* The state machine.  A behaviour is one call of validate_gate or         *)
(* get_confidence_action on inputs drawn at the start (Spec), or one run   *)
(* of quality_gates.py, of protocol_event.py or of a transport function    *)
(* (RunSpec), one run of send_event.py (HookSpec), or calls of             *)
(* validate_gate by several agents whose steps interleave                  *)
(* (ConcurrentSpec).                                                       *)
(***************************************************************************)
VARIABLES pc, op, gate_name, context, result, confidence, action,
          args, stdin, payload, environ, event, posts, response,
          returned, stdout, stderr, exit_code, error,
          registry, calls, clock, verdicts

vars == <<pc, op, gate_name, context, result, confidence, action,
          args, stdin, payload, environ, event, posts, response,
          returned, stdout, stderr, exit_code, error,
          registry, calls, clock, verdicts>>

\* the process state of an entrypoint run
io == <<args, stdin, payload, environ, event, posts, response, returned,
        stdout, stderr, exit_code, error>>

NoEvent ==
    [source_app |-> "", session_id |-> "", hook_event_type |-> "",
     timestamp |-> "", payload |-> <<>>]

NoError == <<"", "">>

\* the state shared by concurrent calls of validate_gate: the module's
\* registry, the calls in progress, the clock and the verdicts returned
world == <<registry, calls, clock, verdicts>>

\* one caller, no concurrent calls
Sequential ==
    /\ registry = GATE_VALIDATORS
    /\ calls = <<>>
    /\ clock = 0
    /\ verdicts = {}

\* nothing read, sent, printed or raised yet; exit_code -1 while the process runs
Fresh ==
    /\ payload = <<>>
    /\ posts = <<>>
    /\ response = NoResponse
    /\ returned = FALSE
    /\ stdout = <<>>
    /\ stderr = <<>>
    /\ exit_code = 0 - 1
    /\ error = NoError

Init ==
    /\ Sequential
    /\ pc = "ready"
    /\ result = NoResult
    /\ action = ""
    /\ args = <<>>
    /\ stdin = Terminal
    /\ environ = <<>>
    /\ event = NoEvent
    /\ Fresh
    /\ \/ /\ op = "validate"
          /\ gate_name \in GateNames
          /\ context \in Contexts(gate_name)
          /\ confidence = FZero
       \/ /\ op = "resolve"
          /\ gate_name = ""
          /\ context = <<>>
          /\ confidence \in ResolverInputs

ValidateGate ==
    /\ pc = "ready"
    /\ op = "validate"
    /\ result' = validate_gate(gate_name, context)
    /\ pc' = "done"
    /\ UNCHANGED world
    /\ UNCHANGED <<op, gate_name, context, confidence, action>>
    /\ UNCHANGED io

ResolveConfidence ==
    /\ pc = "ready"
    /\ op = "resolve"
    /\ action' = get_confidence_action(confidence)
    /\ pc' = "done"
    /\ UNCHANGED world
    /\ UNCHANGED <<op, gate_name, context, result, confidence>>
    /\ UNCHANGED io

Next == ValidateGate \/ ResolveConfidence

Spec == Init /\ [][Next]_vars

(***************************************************************************)
(* Runs of the entrypoints.                                                *)
(***************************************************************************)
RunInit ==
    /\ Sequential
    /\ gate_name = ""
    /\ confidence = FZero
    /\ action = ""
    /\ context = <<>>
    /\ result = NoResult
    /\ Fresh
    /\ \/ /\ op = "gate_main"
          /\ pc = "start"
          /\ args \in MainArgs
          /\ stdin \in MainStdin(args.gate)
          /\ environ \in Environs
          /\ event = NoEvent
       \/ /\ op = "event_main"
          /\ pc = "start"
          /\ args \in EventArgs
          /\ stdin \in EventStdin(args.event_type)
          /\ environ \in EventEnvirons
          /\ event = NoEvent
       \/ /\ op = "call_send"
          /\ pc = "send"
          /\ args \in SendArgs
          /\ event \in SendEvents
          /\ stdin = Terminal
          /\ environ = <<>>

\* an uncaught exception: traceback on stderr, exit status 1
Crash(exception) ==
    /\ error' = <<exception, pc>>
    /\ stderr' = Append(stderr, "Traceback: " \o exception)
    /\ exit_code' = 1
    /\ pc' = "crashed"

\* json.load(sys.stdin) or {} of quality_gates.main
LoadContext ==
    IF stdin.isatty \/ ~stdin.parses THEN <<>> ELSE stdin.value

\* the type of context.get("data", {})
DataType ==
    IF stdin.isatty \/ ~stdin.parses THEN "absent" ELSE stdin.data_type

\* main of quality_gates.py: read the context, context["agent_type"] = agent
ReadContext ==
    /\ pc = "start"
    /\ op = "gate_main"
    /\ IF ~stdin.isatty /\ stdin.parses /\ stdin.type # "dict"
       THEN /\ Crash("TypeError")
            /\ UNCHANGED context
       ELSE /\ context' = Merge([agent_type |-> args.agent], LoadContext)
            /\ pc' = "validate"
            /\ UNCHANGED <<stderr, exit_code, error>>
    /\ UNCHANGED world
    /\ UNCHANGED <<op, gate_name, result, confidence, action, args, stdin, payload,
                   environ, event, posts, response, returned, stdout>>

\* result = validate_gate(args.gate, context); a validator's data.get raises
\* when data is not a dict
Validate ==
    /\ pc = "validate"
    /\ op = "gate_main"
    /\ IF args.gate \in GATE_VALIDATORS /\ DataType \notin {"absent", "dict"}
       THEN /\ Crash("AttributeError")
            /\ UNCHANGED result
       ELSE /\ result' = validate_gate(args.gate, context)
            /\ pc' = "emit"
            /\ UNCHANGED <<stderr, exit_code, error>>
    /\ UNCHANGED world
    /\ UNCHANGED <<op, gate_name, context, confidence, action, args, stdin, payload,
                   environ, event, posts, response, returned, stdout>>

\* if args.emit: emit_gate_event(result, args.agent), up to its try block
EmitGate ==
    /\ pc = "emit"
    /\ op = "gate_main"
    /\ args.emit
    /\ event' = gate_event(result, args.agent, environ)
    /\ pc' = "send"
    /\ UNCHANGED world
    /\ UNCHANGED <<op, gate_name, context, result, confidence, action, args,
                   stdin, payload, environ, posts, response, returned, stdout, stderr,
                   exit_code, error>>

SkipEmit ==
    /\ pc = "emit"
    /\ op = "gate_main"
    /\ ~args.emit
    /\ pc' = "print"
    /\ UNCHANGED world
    /\ UNCHANGED <<op, gate_name, context, result, confidence, action>>
    /\ UNCHANGED io

\* the transport function a run is in
Sender ==
    CASE op = "gate_main" -> "emit_gate_event"
      [] op = "event_main" -> "protocol_event.send_event"
      [] op = "hook_main" -> "send_event.send_event"
      [] op = "call_send" -> args.fn

\* whether json.dumps(event) succeeds: always for an envelope an entrypoint
\* built from parsed JSON
Serializable ==
    CASE op = "call_send" -> args.serializable
      [] OTHER -> TRUE

\* where the caller continues after the transport function returned
AfterSend ==
    CASE op = "gate_main" -> "print"
      [] op = "event_main" -> "report"
      [] op = "hook_main" -> "exit"
      [] op = "call_send" -> "returned"

\* the transport function ends: its value is returned, or its exception
\* reaches the caller
Finish(ret) ==
    IF ret.raised # ""
    THEN /\ Crash(ret.raised)
         /\ UNCHANGED returned
    ELSE /\ returned' = ret.value
         /\ pc' = AfterSend
         /\ UNCHANGED <<stderr, exit_code, error>>

\* data = json.dumps(event); the request is built and urlopen sends it
SendRequest ==
    /\ pc = "send"
    /\ IF Serializable
       THEN /\ posts' = Append(posts, event)
            /\ pc' = "await"
            /\ UNCHANGED <<returned, stderr, exit_code, error>>
       ELSE /\ Finish(CallSender(Sender, FALSE, NoResponse))
            /\ UNCHANGED posts
    /\ UNCHANGED world
    /\ UNCHANGED <<op, gate_name, context, result, confidence, action, args,
                   stdin, payload, environ, event, response, stdout>>

\* mutant: a failed attempt is sent again
Receive_retry ==
    /\ pc = "await"
    /\ \E outcome \in Outcomes :
          /\ response' = outcome
          /\ IF CallSender(Sender, TRUE, outcome).value
             THEN Finish(CallSender(Sender, TRUE, outcome))
             ELSE /\ pc' = "send"
                  /\ UNCHANGED <<returned, stderr, exit_code, error>>
    /\ UNCHANGED world
    /\ UNCHANGED <<op, gate_name, context, result, confidence, action, args,
                   stdin, payload, environ, event, posts, stdout>>

\* urlopen(req, timeout=5) ends with a response or an exception
Receive ==
    /\ pc = "await"
    /\ \E outcome \in Outcomes :
          /\ response' = outcome
          /\ Finish(CallSender(Sender, TRUE, outcome))
    /\ UNCHANGED world
    /\ UNCHANGED <<op, gate_name, context, result, confidence, action, args,
                   stdin, payload, environ, event, posts, stdout>>

\* print(result.to_json())
PrintVerdict ==
    /\ pc = "print"
    /\ op = "gate_main"
    /\ stdout' = Append(stdout, to_json(result))
    /\ pc' = "exit"
    /\ UNCHANGED world
    /\ UNCHANGED <<op, gate_name, context, result, confidence, action, args,
                   stdin, payload, environ, event, posts, response, returned, stderr,
                   exit_code, error>>

\* mutant: the exit code follows the emission
Exit_emitted ==
    /\ pc = "exit"
    /\ op = "gate_main"
    /\ exit_code' = IF result.passed /\ (returned \/ ~args.emit) THEN 0 ELSE 1
    /\ pc' = "exited"
    /\ UNCHANGED world
    /\ UNCHANGED <<op, gate_name, context, result, confidence, action, args,
                   stdin, payload, environ, event, posts, response, returned, stdout,
                   stderr, error>>

\* sys.exit(0 if result.passed else 1)
Exit ==
    /\ pc = "exit"
    /\ op = "gate_main"
    /\ exit_code' = IF result.passed THEN 0 ELSE 1
    /\ pc' = "exited"
    /\ UNCHANGED world
    /\ UNCHANGED <<op, gate_name, context, result, confidence, action, args,
                   stdin, payload, environ, event, posts, response, returned, stdout,
                   stderr, error>>

\* the type of what read_stdin of protocol_event.py returns
PayloadType ==
    IF stdin.isatty \/ ~stdin.parses THEN "dict" ELSE stdin.type

\* payload = read_stdin(): {} on a terminal, {} and a warning on stderr when
\* the text does not parse, else whatever json.load returns
ReadPayload ==
    /\ pc = "start"
    /\ op = "event_main"
    /\ payload' = IF stdin.isatty \/ ~stdin.parses THEN <<>> ELSE stdin.value
    /\ stderr' = IF ~stdin.isatty /\ ~stdin.parses
                 THEN Append(stderr, "Warning: Invalid JSON input")
                 ELSE stderr
    /\ pc' = "build"
    /\ UNCHANGED world
    /\ UNCHANGED <<op, gate_name, context, result, confidence, action, args,
                   stdin, environ, event, posts, response, returned, stdout,
                   exit_code, error>>

\* event_payload = builder(args.agent, payload) and the full event
BuildEvent ==
    /\ pc = "build"
    /\ op = "event_main"
    /\ IF BuilderRaises(args.event_type, PayloadType, payload) # ""
       THEN /\ Crash(BuilderRaises(args.event_type, PayloadType, payload))
            /\ UNCHANGED event
       ELSE /\ event' = protocol_event(args, environ, payload)
            /\ pc' = "send"
            /\ UNCHANGED <<stderr, exit_code, error>>
    /\ UNCHANGED world
    /\ UNCHANGED <<op, gate_name, context, result, confidence, action, args,
                   stdin, payload, environ, posts, response, returned,
                   stdout>>

\* print(json.dumps({"status": ..., "event_type": args.event_type}))
Report ==
    /\ pc = "report"
    /\ op = "event_main"
    /\ stdout' = Append(stdout, status_report(returned, args.event_type))
    /\ pc' = "exit"
    /\ UNCHANGED world
    /\ UNCHANGED <<op, gate_name, context, result, confidence, action, args,
                   stdin, payload, environ, event, posts, response, returned,
                   stderr, exit_code, error>>

\* sys.exit(0)
ExitZero ==
    /\ pc = "exit"
    /\ op = "event_main"
    /\ exit_code' = 0
    /\ pc' = "exited"
    /\ UNCHANGED world
    /\ UNCHANGED <<op, gate_name, context, result, confidence, action, args,
                   stdin, payload, environ, event, posts, response, returned,
                   stdout, stderr, error>>

RunNext ==
    \/ ReadContext
    \/ Validate
    \/ EmitGate
    \/ SkipEmit
    \/ SendRequest
    \/ Receive
    \/ PrintVerdict
    \/ Exit
    \/ ReadPayload
    \/ BuildEvent
    \/ Report
    \/ ExitZero

RunSpec == RunInit /\ [][RunNext]_vars

\* the interpreter keeps running and urlopen ends within its timeout
FairRunSpec == RunSpec /\ WF_vars(RunNext)


(***************************************************************************)
(* Runs of the generic hook send_event.py.                                 *)
(***************************************************************************)
HookInit ==
    /\ Sequential
    /\ gate_name = ""
    /\ confidence = FZero
    /\ action = ""
    /\ context = <<>>
    /\ result = NoResult
    /\ Fresh
    /\ op = "hook_main"
    /\ pc = "start"
    /\ args \in HookArgv
    /\ stdin \in HookStdin
    /\ environ \in EventEnvirons
    /\ event = NoEvent

\* payload = read_stdin(): {} on a terminal and when the text does not
\* parse, else whatever json.load returns
HookRead ==
    /\ pc = "start"
    /\ op = "hook_main"
    /\ payload' = IF stdin.isatty \/ ~stdin.parses THEN <<>> ELSE stdin.value
    /\ pc' = "build"
    /\ UNCHANGED world
    /\ UNCHANGED <<op, gate_name, context, result, confidence, action, args,
                   stdin, environ, event, posts, response, returned, stdout,
                   stderr, exit_code, error>>

\* the event is built from the payload and the command line;
\* extract_agent_name calls payload.get
HookBuild ==
    /\ pc = "build"
    /\ op = "hook_main"
    /\ IF PayloadType # "dict"
       THEN /\ Crash("AttributeError")
            /\ UNCHANGED event
       ELSE /\ event' = hook_event(parse_args(args), environ, payload)
            /\ pc' = "send"
            /\ UNCHANGED <<stderr, exit_code, error>>
    /\ UNCHANGED world
    /\ UNCHANGED <<op, gate_name, context, result, confidence, action, args,
                   stdin, payload, environ, posts, response, returned,
                   stdout>>

\* sys.exit(0)
HookExit ==
    /\ pc = "exit"
    /\ op = "hook_main"
    /\ exit_code' = 0
    /\ pc' = "exited"
    /\ UNCHANGED world
    /\ UNCHANGED <<op, gate_name, context, result, confidence, action, args,
                   stdin, payload, environ, event, posts, response, returned,
                   stdout, stderr, error>>

HookNext ==
    \/ HookRead
    \/ HookBuild
    \/ SendRequest
    \/ Receive
    \/ HookExit

HookSpec == HookInit /\ [][HookNext]_vars

(***************************************************************************)
(* Concurrent calls of validate_gate.  Several agents call validate_gate   *)
(* in one process; a call is a sequence of steps (the test of the          *)
(* registry, the construction of the GateContext, the call of the          *)
(* registered validator) which interleave with the steps of the other      *)
(* calls, while the clock advances and the environment changes.            *)
(***************************************************************************)
Agents == {"researcher", "reviewer"}

ConcurrentGates == {"no_regressions", "unknown_gate"}

\* the context dictionaries the callers pass
ConcurrentContexts(g) ==
    IF g \in GATE_VALIDATORS THEN {[data |-> d] : d \in MainData(g)}
    ELSE {<<>>}

NoContext == GateContext("", "", "", <<>>, PyNone)

\* the frame of a call: its position, its parameters (context is the
\* caller's dictionary, given is its value when the call began), the local
\* ctx and the returned verdict; done counts the agent's finished calls
NoCall ==
    [pc |-> "idle", gate_name |-> "", context |-> <<>>, given |-> <<>>,
     ctx |-> NoContext, result |-> NoResult, done |-> 0]

ConcurrentInit ==
    /\ pc = "concurrent"
    /\ op = "concurrent"
    /\ gate_name = ""
    /\ context = <<>>
    /\ result = NoResult
    /\ confidence = FZero
    /\ action = ""
    /\ args = <<>>
    /\ stdin = Terminal
    /\ environ \in Environs
    /\ event = NoEvent
    /\ Fresh
    /\ registry = GATE_VALIDATORS
    /\ calls = [a \in Agents |-> NoCall]
    /\ clock = 0
    /\ verdicts = {}

\* what the concurrent calls leave alone
process == <<pc, op, gate_name, context, result, confidence, action, args,
             stdin, payload, event, posts, response, returned, stdout,
             stderr, exit_code, error>>

\* the record of a returned call: its inputs, its circumstances, its verdict
Returned(a, verdict) ==
    [gate_name |-> calls[a].gate_name, context |-> calls[a].given,
     clock |-> clock, environ |-> environ, earlier |-> calls[a].done,
     result |-> verdict]

\* an agent calls validate_gate(gate_name, context)
Call(a) ==
    /\ calls[a].pc = "idle"
    /\ calls[a].done < MaxCalls
    /\ \E g \in ConcurrentGates : \E c \in ConcurrentContexts(g) :
          calls' = [calls EXCEPT ![a].pc = "lookup", ![a].gate_name = g,
                                 ![a].context = c, ![a].given = c,
                                 ![a].ctx = NoContext, ![a].result = NoResult]
    /\ UNCHANGED <<registry, clock, verdicts, environ>>
    /\ UNCHANGED process

\* the verdict for a name without validator
AutoPass(a) ==
    QualityGateResult(calls[a].gate_name, TRUE, FInt(1), QUALITY_GATE_THRESHOLD,
        "No validator defined for gate '" \o calls[a].gate_name
            \o "' - auto-pass",
        <<>>, FALSE)

\* if gate_name not in GATE_VALIDATORS: return the auto-pass verdict
Lookup(a) ==
    /\ calls[a].pc = "lookup"
    /\ IF calls[a].gate_name \notin registry
       THEN /\ calls' = [calls EXCEPT ![a].pc = "returned",
                   ![a].result = AutoPass(a)]
            /\ verdicts' = verdicts \cup
                   {Returned(a, AutoPass(a))}
       ELSE /\ calls' = [calls EXCEPT ![a].pc = "construct"]
            /\ UNCHANGED verdicts
    /\ UNCHANGED <<registry, clock, environ>>
    /\ UNCHANGED process

\* ctx = GateContext(context.get(...), ...)
Construct(a) ==
    /\ calls[a].pc = "construct"
    /\ calls' = [calls EXCEPT ![a].pc = "dispatch",
           ![a].ctx = GateContext(Get(calls[a].context, "session_id", "unknown"),
                                  Get(calls[a].context, "agent_type", "unknown"),
                                  Get(calls[a].context, "phase", "unknown"),
                                  Get(calls[a].context, "data", <<>>),
                                  Get(calls[a].context, "history", PyNone))]
    /\ UNCHANGED <<registry, clock, verdicts, environ>>
    /\ UNCHANGED process

\* mutant: one ctx shared by the calls in progress
ctx_of_shared(a) ==
    calls[CHOOSE b \in Agents : calls[b].pc = "dispatch"].ctx

\* the local variable ctx of the call
ctx_of(a) == calls[a].ctx

\* mutant: a verdict that tells the time of the call
Verdict_timed(a) ==
    [CallValidator(calls[a].gate_name, ctx_of(a))
        EXCEPT !.feedback = @ \o " at " \o ToString(clock)]

\* GATE_VALIDATORS[gate_name](ctx)
Verdict(a) == CallValidator(calls[a].gate_name, ctx_of(a))

\* return GATE_VALIDATORS[gate_name](ctx)
Dispatch(a) ==
    /\ calls[a].pc = "dispatch"
    /\ calls[a].gate_name \in registry
    /\ calls' = [calls EXCEPT ![a].pc = "returned", ![a].result = Verdict(a)]
    /\ verdicts' = verdicts \cup {Returned(a, Verdict(a))}
    /\ UNCHANGED <<registry, clock, environ>>
    /\ UNCHANGED process

\* the caller has the verdict and may call again
Resume(a) ==
    /\ calls[a].pc = "returned"
    /\ calls' = [calls EXCEPT ![a].pc = "idle", ![a].done = @ + 1]
    /\ UNCHANGED <<registry, clock, verdicts, environ>>
    /\ UNCHANGED process

\* time passes
Tick ==
    /\ clock < MaxClock
    /\ clock' = clock + 1
    /\ UNCHANGED <<registry, calls, verdicts, environ>>
    /\ UNCHANGED process

\* the environment of the process changes
SetEnviron ==
    /\ environ' \in Environs \ {environ}
    /\ UNCHANGED <<registry, calls, clock, verdicts>>
    /\ UNCHANGED process

ConcurrentNext ==
    \/ \E a \in Agents : Call(a)
    \/ \E a \in Agents : Lookup(a)
    \/ \E a \in Agents : Construct(a)
    \/ \E a \in Agents : Dispatch(a)
    \/ \E a \in Agents : Resume(a)
    \/ Tick
    \/ SetEnviron

ConcurrentSpec == ConcurrentInit /\ [][ConcurrentNext]_vars
(***************************************************************************)
(* Properties.                                                             *)
(***************************************************************************)
\* a verdict has been returned by validate_gate
Validated == pc = "done" /\ op = "validate"

\* the verdict of a registered gate g has been returned
ValidatedGate(g) == Validated /\ gate_name = g

\* the data dictionary the validators read
InputData == Get(context, "data", <<>>)

\* C1: every verdict returned by validate_gate (registered gate or auto-pass
\* fallback) that is blocking is a failed verdict
C1_BlockingImpliesFailed ==
    Validated => (result.blocking => ~result.passed)

\* a blocking verdict has been returned
C1_Witness == Validated /\ result.blocking /\ ~result.passed

\* C2: every registered validator returns a score within [0, 1], whatever
\* numeric fields the context data carries
C2_ScoreInUnitInterval ==
    Validated /\ gate_name \in GATE_VALIDATORS
        => FGe(result.score, FZero) /\ FLe(result.score, FInt(1))

\* C3: a gate name absent from the registry auto-passes: passed, score 1.0,
\* threshold 0.8, not blocking, no suggestions, the requested name
C3_UnknownGateAutoPass ==
    Validated /\ gate_name \notin GATE_VALIDATORS
        => /\ result.passed
           /\ result.score = FInt(1)
           /\ result.threshold = Dec(80)
           /\ ~result.blocking
           /\ result.suggestions = <<>>
           /\ result.gate_name = gate_name

\* a misspelt gate name has been validated against a non-empty context
C3_Witness ==
    /\ ValidatedGate("input_clarty")
    /\ context # <<>>
    /\ result.passed

\* the threshold table, in hundredths
TableThreshold(g) ==
    CASE g \in {"source_coverage", "memory_relevance"} -> 70
      [] g = "security_check" -> 90
      [] g = "no_regressions" -> 100
      [] OTHER -> 80

\* input_clarity was called without a usable query
EmptyQueryCase ==
    gate_name = "input_clarity" /\ ~Truthy(Get(InputData, "query", <<>>))

\* C4: each registered gate reports the threshold of the table, and except
\* for no_regressions and input_clarity's empty-query case the verdict has
\* passed exactly when score >= threshold
C4_ThresholdTable ==
    Validated /\ gate_name \in GATE_VALIDATORS
        => /\ result.threshold = FDiv(TableThreshold(gate_name), 100)
           /\ gate_name # "no_regressions" /\ ~EmptyQueryCase
                => (result.passed <=> FGe(result.score, result.threshold))

\* memory_relevance passes with a score below the default threshold 0.8
C4_Witness ==
    /\ ValidatedGate("memory_relevance")
    /\ result.passed
    /\ FLt(result.score, Dec(80))

\* the inputs of no_regressions, with the defaults of absent fields
TestsRun == Get(InputData, "tests_run", 0)

TestsPassed == Get(InputData, "tests_passed", 0)

TestsFailed == Get(InputData, "tests_failed", 0)

NewFailures == Get(InputData, "new_failures", <<>>)

\* suggestions naming the first 3 entries of new_failures, in their order
FirstThreeNamed ==
    /\ Len(result.suggestions) = (IF Len(NewFailures) < 3 THEN Len(NewFailures) ELSE 3)
    /\ \A i \in 1..Len(result.suggestions) :
           result.suggestions[i] = "Fix failing test: " \o NewFailures[i]

\* C5 as stated, for counts that are not negative: the three cases in their
\* order, and the two examples with tests_passed left open
C5_AsStated ==
    ValidatedGate("no_regressions") /\ TestsRun >= 0
        => /\ TestsRun = 0
                => /\ ~result.passed /\ result.score = FZero
                   /\ result.threshold = FInt(1) /\ result.blocking
           /\ TestsRun # 0 /\ TestsFailed > 0
                => /\ ~result.passed /\ result.blocking
                   /\ result.score = FDiv(TestsPassed, TestsRun)
                   /\ FirstThreeNamed
           /\ TestsRun # 0 /\ ~(TestsFailed > 0)
                => result.passed /\ result.score = FInt(1) /\ ~result.blocking
           /\ TestsRun = 10 /\ TestsFailed = 1
                => ~result.passed /\ result.score = FDiv(9, 10) /\ result.blocking
           /\ TestsRun = 10 /\ TestsFailed = 0
                => result.passed /\ result.score = FInt(1)

\* C5 (amended): tests_run == 0 gives a failed, blocking verdict of score 0
\* and threshold 1.0; otherwise tests_failed > 0 gives a failed, blocking
\* verdict whose score is tests_passed/tests_run (0 for a negative tests_run)
\* and whose suggestions name the first 3 new_failures in order; otherwise
\* the verdict passes with score 1.0; tests_run=10, tests_passed=9,
\* tests_failed=1 scores 0.9
C5_NoRegressionsOrder ==
    ValidatedGate("no_regressions")
        => /\ TestsRun = 0
                => /\ ~result.passed /\ result.score = FZero
                   /\ result.threshold = FInt(1) /\ result.blocking
           /\ TestsRun # 0 /\ TestsFailed > 0
                => /\ ~result.passed /\ result.blocking
                   /\ result.score = (IF TestsRun > 0
                                      THEN FDiv(TestsPassed, TestsRun)
                                      ELSE FZero)
                   /\ FirstThreeNamed
           /\ TestsRun # 0 /\ ~(TestsFailed > 0)
                => result.passed /\ result.score = FInt(1) /\ ~result.blocking
           /\ TestsRun = 10 /\ TestsPassed = 9 /\ TestsFailed = 1
                => ~result.passed /\ result.score = FDiv(9, 10) /\ result.blocking
           /\ TestsRun = 10 /\ TestsFailed = 0
                => result.passed /\ result.score = FInt(1)

\* 10 tests ran, 9 passed, 1 failed, and 4 new failures were reported
C5_Witness ==
    /\ ValidatedGate("no_regressions")
    /\ TestsRun = 10 /\ TestsPassed = 9 /\ TestsFailed = 1
    /\ Len(NewFailures) = 4
    /\ Len(result.suggestions) = 3
    /\ result.score = FDiv(9, 10)

\* C6: no_regressions passes only when tests ran and every one of them
\* passed, whatever counts the caller supplies (stated for the counts that
\* are not negative)
C6_PassNeedsFullPassRate ==
    /\ ValidatedGate("no_regressions")
    /\ TestsRun >= 0 /\ TestsPassed >= 0 /\ TestsFailed >= 0
    /\ result.passed
        => TestsRun > 0 /\ TestsPassed = TestsRun

\* the indicators of security_check that the input satisfies
SecurityChecks == Get(InputData, "security_checks", <<>>)

Satisfied(item) == Get(SecurityChecks, item, FALSE)

Weight(item, hundredths) == IF Satisfied(item) THEN hundredths ELSE 0

\* C7: security_check scores the sum of the weights of the satisfied
\* indicators against threshold 0.9, every failing verdict blocks, and the
\* gate passes exactly when all five indicators are satisfied
C7_SecurityCheck ==
    ValidatedGate("security_check")
        => /\ result.score =
                FDiv(Weight("input_validation", 25) + Weight("output_encoding", 20)
                     + Weight("auth_checks", 25) + Weight("no_data_exposure", 15)
                     + Weight("injection_prevention", 15), 100)
           /\ result.threshold = FDiv(9, 10)
           /\ ~result.passed => result.blocking
           /\ result.passed <=>
                \A item \in {"input_validation", "output_encoding", "auth_checks",
                             "no_data_exposure", "injection_prevention"} :
                    Satisfied(item)

\* four indicators are satisfied, one of weight 0.15 is not: the verdict
\* fails with score 0.85 and blocks
C7_Witness ==
    /\ ValidatedGate("security_check")
    /\ Satisfied("input_validation") /\ Satisfied("output_encoding")
    /\ Satisfied("auth_checks") /\ Satisfied("no_data_exposure")
    /\ ~Satisfied("injection_prevention")
    /\ ~result.passed /\ result.blocking
    /\ result.score = FDiv(85, 100)

\* the query of input_clarity and what the claim reads off it
Query == Get(InputData, "query", <<>>)

QueryWords == WordCount(Query)

HasQuestionMarker == ContainsAny(Lower(Query), QuestionMarkers)

HasTechnicalTerm == ContainsAny(Lower(Query), tech_indicators)

\* a + w if cond, else a
Plus(a, cond, w) == IF cond THEN FAdd(a, w) ELSE a

\* C8: input_clarity: an empty query gives score 0, failed, blocking; else
\* the score is 0.3 (>= 5 words) + 0.2 (>= 10) + 0.1 (<= 100) + 0.2 (question
\* marker) + 0.2 (technical term), passed = score >= 0.8, blocking = failed
\* and score < 0.6; a 12-word query with a marker and a term scores 1.0
C8_InputClarity ==
    ValidatedGate("input_clarity")
        => IF ~Truthy(Query)
           THEN result.score = FZero /\ ~result.passed /\ result.blocking
           ELSE /\ result.score =
                     Plus(Plus(Plus(Plus(Plus(FZero,
                         QueryWords >= 5, FDiv(3, 10)),
                         QueryWords >= 10, FDiv(2, 10)),
                         QueryWords <= 100, FDiv(1, 10)),
                         HasQuestionMarker, FDiv(2, 10)),
                         HasTechnicalTerm, FDiv(2, 10))
                /\ result.passed <=> FGe(result.score, FDiv(8, 10))
                /\ result.blocking <=>
                     ~result.passed /\ FLt(result.score, FDiv(6, 10))
                /\ QueryWords = 12 /\ HasQuestionMarker /\ HasTechnicalTerm
                     => result.score = FInt(1) /\ result.passed

\* the 12-word query "how api zz zz zz zz zz zz zz zz zz zz" scored 1.0
C8_Witness ==
    /\ ValidatedGate("input_clarity")
    /\ Truthy(Query)
    /\ QueryWords = 12 /\ HasQuestionMarker /\ HasTechnicalTerm
    /\ result.score = FInt(1) /\ result.passed

\* the number of the 6 fixed perspectives the input covers
Covered ==
    Cardinality({k \in {"developer_experience", "architecture", "user_impact",
                        "resource_cost", "security", "time_horizon"} :
                    TruthyStr(Get(Get(InputData, "perspectives", <<>>), k, ""))})

WeightsAssigned == Get(InputData, "weights_assigned", FALSE)

\* 0.15 added n times
RECURSIVE FifteenTimes(_)
FifteenTimes(n) ==
    IF n = 0 THEN FZero ELSE FAdd(FifteenTimes(n - 1), FDiv(15, 100))

\* C9: perspective_coverage scores 0.15 for each of the 6 perspectives
\* present plus 0.1 if weights_assigned; with threshold 0.8 it passes exactly
\* when all 6 are covered or 5 are covered and weights are assigned; it
\* never blocks
C9_PerspectiveCoverage ==
    ValidatedGate("perspective_coverage")
        => /\ result.score =
                Plus(FifteenTimes(Covered), WeightsAssigned, FDiv(1, 10))
           /\ result.threshold = FDiv(8, 10)
           /\ result.passed <=>
                (Covered = 6 \/ (Covered = 5 /\ WeightsAssigned))
           /\ ~result.blocking

\* 5 perspectives covered and weights assigned: the verdict passes
C9_Witness ==
    /\ ValidatedGate("perspective_coverage")
    /\ Covered = 5 /\ WeightsAssigned
    /\ result.passed /\ ~result.blocking

\* the resolver has returned
Resolved == pc = "done" /\ op = "resolve"

\* C10: get_confidence_action returns proceed for confidence >= 0.8, clarify
\* for 0.6 <= confidence < 0.8 and block for confidence < 0.6; 0.8 proceeds,
\* 0.6 clarifies, 0.59 blocks
C10_ConfidencePartition ==
    Resolved
        => /\ action \in {"proceed", "clarify", "block"}
           /\ action = "proceed" <=> FGe(confidence, FDiv(8, 10))
           /\ action = "clarify" <=>
                FGe(confidence, FDiv(6, 10)) /\ FLt(confidence, FDiv(8, 10))
           /\ action = "block" <=> FLt(confidence, FDiv(6, 10))
           /\ confidence = FDiv(80, 100) => action = "proceed"
           /\ confidence = FDiv(60, 100) => action = "clarify"
           /\ confidence = FDiv(59, 100) => action = "block"

\* the boundary 0.8 has been resolved to proceed
C10_Witness == Resolved /\ confidence = FDiv(8, 10) /\ action = "proceed"

(***************************************************************************)
(* Properties of the transport and of the validation entrypoint.           *)
(***************************************************************************)
\* a run of quality_gates.py
GateMain == op = "gate_main"

\* the run called a transport function and the call is over
SendOver ==
    \/ op = "call_send" /\ pc = "returned"
    \/ GateMain /\ args.emit /\ pc \in {"print", "exit", "exited"}
    \/ op = "event_main" /\ pc \in {"report", "exit", "exited"}

\* the POST completed with status 200 or 201
Delivered ==
    /\ Len(posts) = 1
    /\ response.kind = "status"
    /\ response.status \in {200, 201}

\* C11: a transport send returns true if and only if the POST completed with
\* status 200 or 201; a timeout, a connection failure, any other status or a
\* serialization error yields false, and no exception reaches the caller.
C11_TransportResult ==
    /\ SendOver => (returned <=> Delivered)
    /\ error[2] \notin {"send", "await"}

\* C11 witness: protocol_event.send_event returned false after a timeout
C11_Witness ==
    /\ op = "call_send"
    /\ pc = "returned"
    /\ args.fn = "protocol_event.send_event"
    /\ response.kind = "timeout"
    /\ ~returned

\* C12: each emission makes at most one POST attempt; after a failed attempt
\* the envelope is discarded: no retry, no later delivery, in any run.
C12_SinglePost ==
    /\ Len(posts) <= 1
    /\ pc = "send" => posts = <<>>
    /\ pc \in {"print", "report", "exit", "exited", "returned", "crashed"} =>
          posts \in {<<>>, <<event>>}

\* C12 witness: a validation run ended after its one attempt got a 503
C12_Witness ==
    /\ GateMain
    /\ pc = "exited"
    /\ response.status = 503
    /\ ~returned
    /\ posts = <<event>>

\* the context main hands to validate_gate, from stdin and --agent alone
GivenContext ==
    Merge([agent_type |-> args.agent],
          IF stdin.isatty \/ ~stdin.parses THEN <<>> ELSE stdin.value)

\* the input makes main raise before it has a verdict
Unusable ==
    /\ ~stdin.isatty
    /\ stdin.parses
    /\ \/ stdin.type # "dict"
       \/ /\ args.gate \in GATE_VALIDATORS
          /\ stdin.data_type \notin {"absent", "dict"}

\* C13: the exit code of the validation entrypoint is 0 if and only if the
\* verdict has passed=true and 1 otherwise; exit code and printed verdict
\* are determined by gate, agent and input context, whatever the emit flag
\* and the transport outcome.
C13_ExitFollowsVerdict ==
    GateMain /\ pc \in {"exited", "crashed"} =>
        IF Unusable
        THEN exit_code = 1 /\ stdout = <<>>
        ELSE /\ stdout = <<to_json(validate_gate(args.gate, GivenContext))>>
             /\ exit_code = 0 <=> validate_gate(args.gate, GivenContext).passed
             /\ exit_code = 1 <=> ~validate_gate(args.gate, GivenContext).passed

\* C13 witness: a passing verdict exits 0 although the emission timed out
C13_Witness ==
    /\ GateMain
    /\ pc = "exited"
    /\ args.emit
    /\ response.kind = "timeout"
    /\ result.passed
    /\ exit_code = 0

\* the emission attempt lies between validation and printing, and is made
\* only with --emit
EmitOrder ==
    GateMain =>
        /\ posts # <<>> => args.emit /\ pc \notin {"start", "validate", "emit"}
        /\ stdout # <<>> /\ args.emit => Len(posts) = 1
        /\ ~args.emit => posts = <<>>

\* C14: every run of the validation entrypoint eventually prints the verdict
\* and then exits, whatever the transport does; with --emit the single
\* emission attempt happens after validation and before the print, without
\* it no emission is attempted.
C14_PrintsThenExits ==
    /\ GateMain ~> (pc = "exited" /\ stdout = <<to_json(result)>>)
    /\ []EmitOrder

\* the context payload cannot be used as a JSON object
Malformed ==
    /\ ~stdin.isatty
    /\ \/ ~stdin.parses
       \/ stdin.type # "dict"
       \/ stdin.data_type \notin {"absent", "dict"}

\* C15: malformed input to the validation entrypoint (unparseable text, JSON
\* that is not an object, or a data field that is not a mapping) is recovered
\* as an empty context: the run still produces a verdict and exits with 0 or
\* 1, never with an uncaught error.
C15_MalformedRecovered ==
    GateMain /\ Malformed =>
        /\ pc # "crashed"
        /\ error = NoError
        /\ (~stdin.parses \/ stdin.type # "dict") /\ pc \in {"validate", "emit"} =>
              context = [agent_type |-> args.agent]
        /\ pc = "exited" => exit_code \in {0, 1} /\ Len(stdout) = 1

(***************************************************************************)
(* Reading a serialized field back: json.loads on the texts json.dumps     *)
(* writes, used to state what a serialized field holds.                    *)
(***************************************************************************)
\* the text is not JSON
JSONDecodeError == [error |-> <<>>]

\* the piece at position i of a text, "" past its end
At(s, i) == IF i \in 1..Len(s) THEN s[i] ELSE ""

IsDigit(c) == c \in {"0", "1", "2", "3", "4", "5", "6", "7", "8", "9"}

DigitValue(c) ==
    CASE c = "0" -> 0 [] c = "1" -> 1 [] c = "2" -> 2 [] c = "3" -> 3
      [] c = "4" -> 4 [] c = "5" -> 5 [] c = "6" -> 6 [] c = "7" -> 7
      [] c = "8" -> 8 [] c = "9" -> 9

\* the position after the digits that start at i
DigitsEnd(s, i) ==
    CHOOSE j \in i..(Len(s) + 1) :
        /\ \A k \in i..(j - 1) : IsDigit(s[k])
        /\ ~IsDigit(At(s, j))

RECURSIVE DigitsValue(_, _, _)
DigitsValue(s, i, j) ==
    IF j <= i THEN 0 ELSE DigitsValue(s, i, j - 1) * 10 + DigitValue(s[j - 1])

\* a parse ends with the value read and the position after it, 0 on an error
Parsed(value, next) == <<value, next>>

ParseFailed == <<JSONDecodeError, 0>>

\* the fraction digits from i to j as hundredths
Hundredths(s, i, j) ==
    IF j - i = 1 THEN DigitsValue(s, i, j) * 10 ELSE DigitsValue(s, i, j)

\* the number whose digits start at i: an int, or a float when a
\* fraction of one or two digits follows
ScanNumber(s, i, sign) ==
    IF DigitsEnd(s, i) = i THEN ParseFailed
    ELSE IF At(s, DigitsEnd(s, i)) # "."
         THEN Parsed(JInt(sign * DigitsValue(s, i, DigitsEnd(s, i))),
                     DigitsEnd(s, i))
    ELSE IF DigitsEnd(s, DigitsEnd(s, i) + 1) - DigitsEnd(s, i) \notin {2, 3}
         THEN ParseFailed
    ELSE Parsed(JNum(sign * (DigitsValue(s, i, DigitsEnd(s, i)) * 100
                     + Hundredths(s, DigitsEnd(s, i) + 1,
                                  DigitsEnd(s, DigitsEnd(s, i) + 1)))),
                DigitsEnd(s, DigitsEnd(s, i) + 1))

\* x put in front of the sequence a parse read
Cons(x, r) == IF r[2] = 0 THEN r ELSE <<<<x>> \o r[1], r[2]>>

RECURSIVE ScanString(_, _)
\* the characters of a string up to its closing quote, unescaped
ScanString(s, i) ==
    IF i > Len(s) THEN <<<<>>, 0>>
    ELSE IF s[i] = "\"" THEN <<<<>>, i + 1>>
    ELSE IF s[i] = "\\"
         THEN IF At(s, i + 1) \in {"\"", "\\"}
              THEN Cons(s[i + 1], ScanString(s, i + 2))
              ELSE <<<<>>, 0>>
    ELSE Cons(s[i], ScanString(s, i + 1))

Wrap(type, r) ==
    IF r[2] = 0 THEN ParseFailed ELSE Parsed([k \in {type} |-> r[1]], r[2])

RECURSIVE ParseValue(_, _), ParseElems(_, _), AfterElem(_, _),
          ParseItems(_, _), AfterKey(_, _), AfterItem(_, _, _)
\* json.loads from position i
ParseValue(s, i) ==
    CASE At(s, i) = "null" -> Parsed(JNull, i + 1)
      [] At(s, i) = "true" -> Parsed(JBool(TRUE), i + 1)
      [] At(s, i) = "false" -> Parsed(JBool(FALSE), i + 1)
      [] At(s, i) = "\"" -> Wrap("str", ScanString(s, i + 1))
      [] At(s, i) = "[" ->
            IF At(s, i + 1) = "]" THEN Parsed(JList(<<>>), i + 2)
            ELSE Wrap("list", ParseElems(s, i + 1))
      [] At(s, i) = "{" ->
            IF At(s, i + 1) = "}" THEN Parsed(JDict(<<>>), i + 2)
            ELSE Wrap("dict", ParseItems(s, i + 1))
      [] At(s, i) = "-" -> ScanNumber(s, i + 1, 0 - 1)
      [] IsDigit(At(s, i)) -> ScanNumber(s, i, 1)
      [] OTHER -> ParseFailed

ParseElems(s, i) == AfterElem(s, ParseValue(s, i))

AfterElem(s, r) ==
    IF r[2] = 0 THEN <<<<>>, 0>>
    ELSE IF At(s, r[2]) = "]" THEN <<<<r[1]>>, r[2] + 1>>
    ELSE IF At(s, r[2]) = ", " THEN Cons(r[1], ParseElems(s, r[2] + 1))
    ELSE <<<<>>, 0>>

ParseItems(s, i) ==
    IF At(s, i) = "\"" THEN AfterKey(s, ScanString(s, i + 1)) ELSE <<<<>>, 0>>

AfterKey(s, k) ==
    IF k[2] = 0 \/ At(s, k[2]) # ": " THEN <<<<>>, 0>>
    ELSE AfterItem(s, k[1], ParseValue(s, k[2] + 1))

AfterItem(s, key, r) ==
    IF r[2] = 0 THEN <<<<>>, 0>>
    ELSE IF At(s, r[2]) = "}" THEN <<<<<<key, r[1]>>>>, r[2] + 1>>
    ELSE IF At(s, r[2]) = ", " THEN Cons(<<key, r[1]>>, ParseItems(s, r[2] + 1))
    ELSE <<<<>>, 0>>

\* the whole text must be one value
WholeText(s, r) == IF r[2] = Len(s) + 1 THEN r[1] ELSE JSONDecodeError

\* json.loads(s)
Loads(s) == WholeText(s, ParseValue(s, 1))

(***************************************************************************)
(* Properties of the event builders of protocol_event.py.                  *)
(***************************************************************************)
\* a run of protocol_event.py has built its event: args.event_type is the
\* shape, payload what the builder was given, event.payload what it built
Built(event_type) ==
    /\ op = "event_main"
    /\ args.event_type = event_type
    /\ event # NoEvent

\* the field holds the caller's value when the payload has one, else the
\* default
CarriedOrDefault(field, key, default) ==
    IF key \in DOMAIN payload THEN field = payload[key] ELSE field = default

\* C16: a gate envelope built from a payload without a passed field has
\* passed == (score >= threshold), threshold being the payload's threshold
\* when supplied and 0.8 otherwise; a supplied passed field is kept.
C16_PassedFromThreshold ==
    Built("gate") =>
        CarriedOrDefault(event.payload.passed, "passed",
            JBool(FGe(AsFloat(event.payload.score),
                      AsFloat(Get(payload, "threshold", JNum(80))))))

\* the value under a key of a parsed JSON object
Item(object, key) ==
    object.dict[CHOOSE i \in 1..Len(object.dict) : object.dict[i][1] = key][2]

\* C17: the progress, complete, handoff and error builders apply the
\* defaults exactly when the caller omits the field (progress
\* phase=execution, confidence=0.5; complete confidence=0.8, duration_ms=0;
\* handoff handoff_type=task_delegation, priority=medium; error
\* error_code=UNKNOWN, recoverable=false) and otherwise carry the caller's
\* value unchanged.
C17_DefaultsWhenOmitted ==
    /\ Built("progress") =>
          /\ CarriedOrDefault(event.payload.phase, "phase", Str("execution"))
          /\ CarriedOrDefault(event.payload.confidence, "confidence", JNum(50))
    /\ Built("complete") =>
          /\ CarriedOrDefault(event.payload.confidence, "confidence", JNum(80))
          /\ CarriedOrDefault(event.payload.context.duration_ms,
                              "duration_ms", JInt(0))
    /\ Built("handoff") =>
          /\ CarriedOrDefault(event.payload.handoff_type, "handoff_type",
                              Str("task_delegation"))
          /\ CarriedOrDefault(
                Item(Loads(event.payload.metadata.str), <<"priority">>),
                "priority", Str("medium"))
    /\ Built("error") =>
          /\ CarriedOrDefault(event.payload.context.error_code, "error_code",
                              Str("UNKNOWN"))
          /\ CarriedOrDefault(event.payload.context.recoverable,
                              "recoverable", JBool(FALSE))

\* C17 witness: a handoff built from a payload that names no priority and
\* no handoff_type
C17_Witness ==
    /\ Built("handoff")
    /\ DOMAIN payload = {"to_agent"}
    /\ event.payload.handoff_type = Str("task_delegation")
    /\ Item(Loads(event.payload.metadata.str), <<"priority">>) = Str("medium")

\* C18: the routing category of an envelope is a function of the event
\* shape alone: gate gives QualityGate, handoff AgentHandoff, and spawn,
\* progress, complete and error ProtocolEvent, whatever the agent role or
\* the payload.
C18_RoutingByShape ==
    /\ Built("gate") => event.hook_event_type = "QualityGate"
    /\ Built("handoff") => event.hook_event_type = "AgentHandoff"
    /\ \A shape \in {"spawn", "progress", "complete", "error"} :
          Built(shape) => event.hook_event_type = "ProtocolEvent"

\* C18 witness: a gate event is routed as QualityGate although its payload
\* calls itself an error event
C18_Witness ==
    /\ Built("gate")
    /\ payload = Overrides
    /\ args.agent = "memory-keeper"
    /\ event.hook_event_type = "QualityGate"

\* C19: build_handoff_event yields from_agent equal to the emitting role
\* (and to agent_type), to_agent equal to the payload's to_agent, and a
\* document that is a serialized string which parses back to the payload's
\* document (the empty mapping when none was given).
C19_HandoffRoundTrip ==
    Built("handoff") =>
        /\ event.payload.from_agent = Str(args.agent)
        /\ event.payload.from_agent = event.payload.agent_type
        /\ "to_agent" \in DOMAIN payload =>
              event.payload.to_agent = payload.to_agent
        /\ TypeOf(event.payload.document) = "str"
        /\ Loads(event.payload.document.str)
              = Get(payload, "document", JDict(<<>>))

\* C19 witness: a handoff to the implementer whose document holds a quote
\* in a key and a nested mapping
C19_Witness ==
    /\ Built("handoff")
    /\ args.agent = "researcher"
    /\ event.payload.from_agent = Str("researcher")
    /\ event.payload.to_agent = Str("implementer")
    /\ "document" \in DOMAIN payload
    /\ TypeOf(payload.document) = "dict"
    /\ Len(payload.document.dict) = 3
    /\ Loads(event.payload.document.str) = payload.document

\* C20: every payload the six builders produce carries protocol_version
\* "2.0", the event_type that was requested and the agent_type of the
\* emitting role; no input field overrides them.
C20_FixedFields ==
    \A shape \in EVENT_BUILDERS :
        Built(shape) =>
            /\ event.payload.protocol_version = Str("2.0")
            /\ event.payload.event_type = Str(shape)
            /\ event.payload.agent_type = Str(args.agent)

\* C20 witness: a progress payload built from an input that names another
\* event_type, agent_type and protocol_version
C20_Witness ==
    /\ Built("progress")
    /\ payload = Overrides
    /\ event.payload.event_type = Str("progress")
    /\ event.payload.protocol_version = Str("2.0")

(***************************************************************************)
(* Properties of the verdicts' suggestions and blocking flags.             *)
(***************************************************************************)
\* the verdict of a registered validator has been returned
Registered == Validated /\ gate_name \in GATE_VALIDATORS

\* C21: a validation failure is surfaced with actionable suggestions: every
\* verdict with passed=false returned by a registered validator has a
\* non-empty suggestions list.
C21_FailureHasSuggestions ==
    Registered /\ ~result.passed => result.suggestions # <<>>

\* the suggestions of the unmet indicators, in the order of the checks; an
\* indicator is <<unmet, suggestion>>, with "" where any text will do
RECURSIVE UnmetSuggestions(_)
UnmetSuggestions(indicators) ==
    IF indicators = <<>> THEN <<>>
    ELSE (IF Head(indicators)[1] THEN <<Head(indicators)[2]>> ELSE <<>>)
         \o UnmetSuggestions(Tail(indicators))

\* the verdict's suggestions are one for each unmet indicator, in order
SuggestsEachUnmet(indicators) ==
    /\ Len(result.suggestions) = Len(UnmetSuggestions(indicators))
    /\ \A i \in 1..Len(result.suggestions) :
          UnmetSuggestions(indicators)[i] # "" =>
              result.suggestions[i] = UnmetSuggestions(indicators)[i]

\* the indicators security_check checks, in its order
SecurityIndicators ==
    <<<<~Satisfied("input_validation"), "Verify input validation">>,
      <<~Satisfied("output_encoding"), "Verify output encoding">>,
      <<~Satisfied("auth_checks"), "Verify auth checks">>,
      <<~Satisfied("no_data_exposure"), "Verify no data exposure">>,
      <<~Satisfied("injection_prevention"), "Verify injection prevention">>>>

TestsAdded == Get(InputData, "tests_added", 0)

CoveragePercent == Get(InputData, "coverage_percent", 0)

TestType(kind) == Get(Get(InputData, "test_types", <<>>), kind, FALSE)

\* the indicators test_coverage checks, in its order
TestCoverageIndicators ==
    <<<<TestsAdded < 1, "">>,
      <<TestsAdded < 3, "Add at least 3 tests for new functionality">>,
      <<CoveragePercent < 80,
        IF CoveragePercent >= 60 THEN "Increase coverage to 80%+"
        ELSE "Test coverage (" \o ToString(CoveragePercent)
             \o "%) below 60% threshold">>,
      <<~TestType("happy_path"), "Add happy path tests">>,
      <<~TestType("edge_cases"), "">>,
      <<~TestType("error_handling"), "">>>>

\* the indicators input_clarity checks on a query, in its order
InputClarityIndicators ==
    <<<<QueryWords < 5, "">>,
      <<QueryWords < 10, "">>,
      <<QueryWords > 100, "">>,
      <<~HasQuestionMarker, "Consider framing as a question for clearer scope">>,
      <<~HasTechnicalTerm, "Include specific technical terms to narrow scope">>>>

\* C22: a failing verdict's suggestions contain one suggestion for every
\* unmet indicator and none for a met one, in the order in which the
\* validator checks its indicators (stated for security_check,
\* test_coverage and input_clarity with a query).
C22_SuggestionPerUnmetIndicator ==
    /\ ValidatedGate("security_check") /\ ~result.passed =>
          SuggestsEachUnmet(SecurityIndicators)
    /\ ValidatedGate("test_coverage") /\ ~result.passed =>
          SuggestsEachUnmet(TestCoverageIndicators)
    /\ ValidatedGate("input_clarity") /\ ~result.passed /\ Truthy(Query) =>
          SuggestsEachUnmet(InputClarityIndicators)

\* the part of C22 that concerns security_check, whose every indicator has
\* a suggestion
C22_SecurityPart ==
    ValidatedGate("security_check") /\ ~result.passed =>
        SuggestsEachUnmet(SecurityIndicators)

C24_Independent ==
    /\ registry = GATE_VALIDATORS
    /\ \A a \in Agents :
          /\ calls[a].context = calls[a].given
          /\ calls[a].pc = "returned" =>
                calls[a].result =
                    validate_gate(calls[a].gate_name, calls[a].given)

\* a call has returned the verdict of a registered validator while the call
\* of another agent, with another context, was between its steps
C24_Witness ==
    \E a \in Agents : \E b \in Agents \ {a} :
        /\ calls[a].pc = "returned"
        /\ calls[a].gate_name \in GATE_VALIDATORS
        /\ calls[b].pc = "dispatch"
        /\ calls[b].given # calls[a].given
        /\ calls[b].gate_name = calls[a].gate_name

(***************************************************************************)
(* Properties of the runs of protocol_event.py.                            *)
(***************************************************************************)
EventMain == op = "event_main"

\* the process of the run has ended
Ended == pc \in {"exited", "crashed"}

\* one envelope, one attempt, the report of the transport's answer, exit 0
CleanExit ==
    /\ event # NoEvent
    /\ posts = <<event>>
    /\ returned <=> Delivered
    /\ stdout = <<status_report(returned, args.event_type)>>
    /\ exit_code = 0

\* C25: a run of the protocol-event entrypoint builds exactly one envelope,
\* attempts delivery once, reports "sent" if and only if the transport
\* returned true and "failed" otherwise, and ends with exit code 0, whatever
\* the input payload and the dashboard do.
C25_AlwaysExitsZero ==
    EventMain =>
        /\ Len(posts) <= 1
        /\ Ended => CleanExit

\* the part of C25 for payloads the builder accepts, unparseable input and
\* an unreachable dashboard included
C25_AcceptedPayloads ==
    EventMain /\ BuilderRaises(args.event_type, PayloadType, payload) = "" =>
        /\ Len(posts) <= 1
        /\ pc # "crashed"
        /\ Ended /\ pc # "start" => CleanExit

(***************************************************************************)
(* Properties of the blocking flags.                                       *)
(***************************************************************************)
\* the gates with blocking = not passed and score < 0.6
ScoreBlockingGates ==
    {"input_clarity", "synthesis_quality", "requirements_clarity",
     "code_quality", "decision_clarity"}

\* a verdict of one of these gates, for input_clarity on a non-empty query
ScoreBlockingVerdict ==
    /\ Validated
    /\ gate_name \in ScoreBlockingGates
    /\ gate_name = "input_clarity" => Query # <<>>

\* C26: for the gates whose blocking flag is not passed and score < 0.6, the
\* verdict agrees with the resolver applied to its score: blocking exactly
\* when get_confidence_action(score) is block, passed exactly when it is
\* proceed.
C26_VerdictAgreesWithResolver ==
    ScoreBlockingVerdict =>
        /\ result.blocking <=> get_confidence_action(result.score) = "block"
        /\ result.passed <=> get_confidence_action(result.score) = "proceed"

\* C26 witness: a failed verdict that does not block, the resolver says
\* clarify
C26_Witness ==
    /\ ScoreBlockingVerdict
    /\ gate_name = "decision_clarity"
    /\ ~result.passed
    /\ ~result.blocking
    /\ get_confidence_action(result.score) = "clarify"

\* the gates whose validator sets blocking=False
NeverBlockingGates ==
    {"source_coverage", "test_coverage", "review_completeness",
     "perspective_coverage", "decision_confidence", "memory_relevance"}

\* C27: source_coverage, test_coverage, review_completeness,
\* perspective_coverage, decision_confidence and memory_relevance never
\* block, however low the score; only the seven other gates can return
\* blocking=true.
C27_NeverBlocking ==
    Validated =>
        /\ gate_name \in NeverBlockingGates => ~result.blocking
        /\ result.blocking => gate_name \in GATE_VALIDATORS \ NeverBlockingGates

\* C27 witness: test_coverage returned score 0.0 and does not block
C27_Witness ==
    /\ ValidatedGate("test_coverage")
    /\ result.score = FZero
    /\ ~result.passed
    /\ ~result.blocking

\* C28: every verdict with passed=true, of a registered validator or the
\* auto-pass fallback, has no suggestions, even when an indicator was unmet.
C28_PassedHasNoSuggestions ==
    Validated /\ result.passed => result.suggestions = <<>>

\* C28 witness: review_completeness passed with a dimension not reviewed
\* and suggests nothing
C28_Witness ==
    /\ ValidatedGate("review_completeness")
    /\ result.passed
    /\ ~Get(Get(InputData, "dimensions_reviewed", <<>>), "test_coverage", FALSE)
    /\ result.suggestions = <<>>

\* a blocking verdict of the gate has been returned
Blocks(g) == ValidatedGate(g) /\ result.blocking

(***************************************************************************)
(* Properties of the builders' leniency.                                   *)
(***************************************************************************)
\* the defaults and the fixed fields C29 names
LenientDefaults ==
    /\ Built("handoff") /\ "to_agent" \notin DOMAIN payload =>
          event.payload.to_agent = Str("unknown")
    /\ Built("gate") /\ DOMAIN payload \cap {"score", "passed"} = {} =>
          /\ event.payload.score = JNum(0)
          /\ event.payload.passed = JBool(FALSE)
    /\ Built("spawn") =>
          /\ CarriedOrDefault(event.payload.context.task, "task", Str(""))
          /\ CarriedOrDefault(event.payload.context.scope, "scope", JDict(<<>>))
          /\ CarriedOrDefault(event.payload.context.requirements,
                              "requirements", JList(<<>>))
          /\ event.payload.phase = Str("initialization")
          /\ event.payload.confidence = JNum(100)
    /\ Built("complete") => event.payload.phase = Str("complete")
    /\ Built("error") => event.payload.confidence = JNum(0)

\* C29: the builders never reject a payload (a JSON object): no builder
\* raises, a handoff without to_agent has to_agent "unknown", a gate event
\* with neither score nor passed has score 0.0 and passed=false, a spawn
\* without task, scope or requirements carries empty values, and spawn's
\* phase and confidence, complete's phase and error's confidence are fixed
\* whatever the payload says.
C29_BuildersNeverReject ==
    EventMain /\ PayloadType = "dict" =>
        /\ error = NoError
        /\ LenientDefaults

\* the part of C29 about the defaults and the fixed fields
C29_DefaultsPart == EventMain => LenientDefaults

(***************************************************************************)
(* Properties of the generic hook.                                         *)
(***************************************************************************)
\* the hook has built its event
HookBuilt == op = "hook_main" /\ event # NoEvent

\* the payload carries the value under the key
Carries(key, value) ==
    key \in DOMAIN event.payload /\ event.payload[key] = value

\* C30: every protocol field given on the command line (agent type, phase,
\* confidence, gate name, gate passed, gate score) is in the emitted payload
\* with the given value, whatever the input payload holds under that name
\* and whichever options are given; and the payload carries
\* protocol_version "2.0" exactly when the event type is a protocol event
\* type.
C30_CliFieldsEmitted ==
    HookBuilt =>
        /\ args.agent_type # "" => Carries("agent_type", Str(args.agent_type))
        /\ args.phase # "" => Carries("phase", Str(args.phase))
        /\ args.confidence # JNull =>
              Carries("confidence", JNum(ParseFloat(args.confidence.str)))
        /\ args.gate_name # "" => Carries("gate_name", Str(args.gate_name))
        /\ args.gate_passed # JNull =>
              Carries("passed", JBool(args.gate_passed.str = <<"True">>))
        /\ args.gate_score # JNull =>
              Carries("score", JNum(ParseFloat(args.gate_score.str)))
        /\ Carries("protocol_version", Str("2.0"))
              <=> args.event_type \in PROTOCOL_EVENT_TYPES

\* the part of C30 about agent type, phase and confidence
C30_AgentPhaseConfidence ==
    HookBuilt =>
        /\ args.agent_type # "" => Carries("agent_type", Str(args.agent_type))
        /\ args.phase # "" => Carries("phase", Str(args.phase))
        /\ args.confidence # JNull =>
              Carries("confidence", JNum(ParseFloat(args.confidence.str)))
        /\ args.event_type \in PROTOCOL_EVENT_TYPES =>
              Carries("protocol_version", Str("2.0"))

\* the gate options reach the payload when one of agent type, phase and
\* confidence is given with them, gate passed as true whatever its text
C30_GateOptionsWithOthers ==
    HookBuilt
    /\ (args.agent_type # "" \/ args.phase # "" \/ args.confidence # JNull) =>
        /\ args.gate_name # "" => Carries("gate_name", Str(args.gate_name))
        /\ args.gate_passed # JNull => Carries("passed", JBool(TRUE))
        /\ args.gate_score # JNull =>
              Carries("score", JNum(ParseFloat(args.gate_score.str)))

====
